---- MODULE Spec2Model ----
(***************************************************************************)
(* Post-recognition structuring layer of the ultrasound measurement        *)
(* extraction project: split_measurement, structure_table_data,            *)
(* calculate_measurement_score (scripts/textAnalyzer.py),                  *)
(* detect_measurement_table (ultrasoundTableAnalyzer.py),                  *)
(* organLabelIdentification (scripts/contentExtractor.py), usImageArea     *)
(* (scripts/dicomHandler.py, scripts/dicomRegionLocation.py) and           *)
(* detect_tables_in_ultrasound (scripts/measurementExtraction.py).         *)
(*                                                                         *)
(* Python str values are TLA+ strings; s[i] is SubSeq(s, i, i) (1-based).  *)
(* Python None returned by split_measurement is the empty tuple << >>: a   *)
(* successful match always yields at least two non-empty groups.           *)
(***************************************************************************)
EXTENDS Integers, Sequences, FiniteSets, TLC

VARIABLES
    pc,                \* position of the component under analysis
    word,              \* split_measurement: its argument text
    split_result,      \* split_measurement: its return value
    text_elements,     \* structure_table_data: the caller's fragment list
    structured_dict,   \* structure_table_data: the returned "value" list
    ocr_lines,         \* calculate_measurement_score: texts of result[0]
    final_score,       \* calculate_measurement_score: its return value
    candidate_regions, \* detect_measurement_table: the candidate dictionaries
    measurement_score, \* detect_measurement_table: the list of scores
    top10Scores,       \* detect_measurement_table: the returned ranking
    rec_texts,         \* organLabelIdentification: the OCR rec_texts
    remaining_text,    \* organLabelIdentification: remaining_text
    keyword_index,     \* organLabelIdentification: position in keywords_sorted
    found_keywords,    \* organLabelIdentification: found keywords, each with the
                       \* positions of all_text its match was deleted from
    dicom_data,        \* usImageArea: the metadata of the DICOM file
    crop_result,       \* usImageArea: its return value
    structure_return,  \* structure_table_data called on arbitrary fragments:
                       \* what the call gives its caller
    roiList,           \* detect_tables_in_ultrasound: the detected ROIs
    organLabelFlag,    \* detect_tables_in_ultrasound: its argument
    extraction_return, \* detect_tables_in_ultrasound: its return value
    detection,         \* YOLODetector.detect: the dictionary of one detection
    roi_bbox,          \* detect_measurement_table: the entry of roi_list
    ocr_region,        \* extract_table_content: the edges of the crop sent to OCR
    thread_pc,         \* StudyTypeProcessor.__new__: where each calling thread stands
    singleton,         \* StudyTypeProcessor._instance and its classifier attribute
    lock_owner,        \* StudyTypeProcessor._lock: the thread holding it, 0 when free
    load_calls,        \* how many times _load_model was entered
    obtained,          \* what each thread got from StudyTypeProcessor() and from identify
    handler,           \* clarityAIApi: each request, where its handler stands and its response
    loop_owner,        \* the request whose handler runs on the event loop, 0 when none
    extracted,         \* API/extracted: for each study folder the request whose files it holds
    yolo_queue,        \* yolo_executor: the submitted jobs not yet started
    yolo_worker,       \* yolo_executor: the job its one worker process runs
    invocation,        \* concurrent callers: component, argument, position and result of each call
    frame              \* the local variables of the calls, one frame per call

vars == <<pc, word, split_result, text_elements, structured_dict, ocr_lines,
          final_score, candidate_regions, measurement_score, top10Scores,
          rec_texts, remaining_text, keyword_index, found_keywords,
          dicom_data, crop_result, structure_return,
          roiList, organLabelFlag, extraction_return,
          detection, roi_bbox, ocr_region,
          thread_pc, singleton, lock_owner, load_calls, obtained,
          handler, loop_owner, extracted, yolo_queue, yolo_worker,
          invocation, frame>>

splitVars == <<word, split_result>>
rowVars == <<text_elements, structured_dict>>
scoreVars == <<ocr_lines, final_score>>
detectVars == <<candidate_regions, measurement_score, top10Scores>>
organVars == <<rec_texts, remaining_text, keyword_index, found_keywords>>
regionVars == <<dicom_data, crop_result>>
callVars == <<structure_return>>
extractVars == <<roiList, organLabelFlag, extraction_return>>
boxVars == <<detection, roi_bbox, ocr_region>>
singletonVars == <<thread_pc, singleton, lock_owner, load_calls, obtained>>
apiVars == <<handler, loop_owner, extracted, yolo_queue, yolo_worker>>
concurrentVars == <<invocation, frame>>
restVars == <<singletonVars, apiVars, concurrentVars>>
systemVars == <<boxVars, restVars>>

(***************************************************************************)
(* Characters and strings                                                  *)
(***************************************************************************)
Digit == {"0", "1", "2", "3", "4", "5", "6", "7", "8", "9"}

UpperLetters == "ABCDEFGHIJKLMNOPQRSTUVWXYZ"

LowerLetters == "abcdefghijklmnopqrstuvwxyz"

Letter == {SubSeq(UpperLetters, i, i) : i \in 1..26} \cup {SubSeq(LowerLetters, i, i) : i \in 1..26}

\* \s of the re module and the characters str.strip() removes
Whitespace == {" ", "\t"}

\* \w of the re module, which decides the word boundary \b
WordChar == Letter \cup Digit \cup {"_"}

None == << >>

Char(s, i) == SubSeq(s, i, i)

\* s[i:] startswith sub
StartsAt(s, i, sub) == i >= 1 /\ i + Len(sub) - 1 <= Len(s) /\ SubSeq(s, i, i + Len(sub) - 1) = sub

\* the index after the longest run of characters of class C that starts at i
\* (a greedy C* from i)
Run(s, i, C) ==
    CHOOSE j \in i..(Len(s) + 1) :
        /\ \A k \in i..(j - 1) : Char(s, k) \in C
        /\ (j = Len(s) + 1 \/ Char(s, j) \notin C)

\* str.lower() of one character
LowerChar(c) ==
    IF \E i \in 1..26 : Char(UpperLetters, i) = c
    THEN Char(LowerLetters, CHOOSE i \in 1..26 : Char(UpperLetters, i) = c)
    ELSE c

\* the characters a..b of s lowercased, the range halved at each step
RECURSIVE LowerRange(_, _, _)
LowerRange(s, a, b) ==
    IF a > b THEN ""
    ELSE IF a = b THEN LowerChar(Char(s, a))
    ELSE LowerRange(s, a, (a + b) \div 2) \o LowerRange(s, (a + b) \div 2 + 1, b)

\* str.lower()
Lower(s) == LowerRange(s, 1, Len(s))

\* str.strip()
Strip(s) ==
    LET a == Run(s, 1, Whitespace)
        b == IF a > Len(s) THEN a - 1
             ELSE CHOOSE j \in a..Len(s) :
                     /\ Char(s, j) \notin Whitespace
                     /\ \A k \in (j + 1)..Len(s) : Char(s, k) \in Whitespace
    IN  SubSeq(s, a, b)

\* sub in s
Contains(s, sub) == \E i \in 1..(Len(s) + 1) : StartsAt(s, i, sub)

(***************************************************************************)
(* split_measurement                                                       *)
(***************************************************************************)
\* The value group (\d+(?:\.\d+)?\s*cm) tried at i: the index after the match,
\* 0 when it does not match. \d+ is followed by a non-digit, so it is the whole
\* digit run; the optional fraction is taken when ". digit" follows.
MatchValue(s, i) ==
    LET d == Run(s, i, Digit)
        f == IF StartsAt(s, d, ".") /\ Run(s, d + 1, Digit) > d + 1
             THEN Run(s, d + 1, Digit) ELSE d
        w == Run(s, f, Whitespace)
    IN  IF d > i /\ StartsAt(s, w, "cm") THEN w + 2 ELSE 0

\* the separator \s*[.\s]*\s* tried at k: the value must start with a digit, so
\* the separator is the whole run of whitespace and dots
SepEnd(s, k) == Run(s, k, Whitespace \cup {"."})

\* (\d*[a-zA-Z]+\d*)\s*[.\s]*\s*(\d+(?:\.\d+)?\s*cm) tried at i: the record of
\* the group boundaries, or ok = FALSE. The trailing \d* of the label is greedy
\* and gives digits back to the value one at a time.
MatchLabelValue(s, i) ==
    LET a == Run(s, i, Digit)
        b == Run(s, a, Letter)
        c == Run(s, b, Digit)
        ends == {k \in b..c : MatchValue(s, SepEnd(s, k)) # 0}
    IN  IF b > a /\ ends # {}
        THEN LET k == CHOOSE e \in ends : \A e2 \in ends : e2 <= e
             IN  [ok |-> TRUE, label |-> SubSeq(s, i, k - 1),
                  value |-> SubSeq(s, SepEnd(s, k), MatchValue(s, SepEnd(s, k)) - 1)]
        ELSE [ok |-> FALSE, label |-> "", value |-> ""]

\* re.match(pattern1, text): (\d+)\s+ then label, separator and value
MatchPattern1(text) ==
    LET g == Run(text, 1, Digit)
        w == Run(text, g, Whitespace)
        m == MatchLabelValue(text, w)
    IN  IF g > 1 /\ w > g /\ m.ok
        THEN <<SubSeq(text, 1, g - 1), m.label, m.value>>
        ELSE None

\* pattern2 searched anywhere in the text (re.search) instead of anchored
SearchPattern2(text) ==
    LET starts == {i \in 1..Len(text) : MatchLabelValue(text, i).ok}
    IN  IF starts = {} THEN None
        ELSE LET i == CHOOSE a \in starts : \A b \in starts : a <= b
             IN  <<MatchLabelValue(text, i).label, MatchLabelValue(text, i).value>>

\* re.match(pattern2, text)
MatchPattern2(text) ==
    LET m == MatchLabelValue(text, 1)
    IN  IF m.ok THEN <<m.label, m.value>> ELSE None

split_measurement(text) ==
    IF MatchPattern1(text) # None THEN MatchPattern1(text)
    ELSE IF MatchPattern2(text) # None THEN MatchPattern2(text)
    ELSE None

(***************************************************************************)
(* Words handed to split_measurement: an optional leading part, a label, a *)
(* separator, a number, a gap, a unit and a trailing part.                 *)
(***************************************************************************)
WordPrefixes == {"", "1 ", "12  ", "x ", "- "}

WordLabels == {"d1", "vol", "2d", "D", "d12"}

WordSeps == {"", " ", ".", " . ", ":"}

WordNumbers == {"2", "2.5", "25", ".5", ""}

WordGaps == {"", " "}

WordUnits == {"cm", "mm", "ml", "cm^3", "m"}

WordSuffixes == {"", " x", "3"}

Words ==
    {p \o l \o s \o n \o g \o u \o x :
        p \in WordPrefixes, l \in WordLabels, s \in WordSeps, n \in WordNumbers,
        g \in WordGaps, u \in WordUnits, x \in WordSuffixes}

SplitIdle == word = "" /\ split_result = None

RowsIdle == text_elements = << >> /\ structured_dict = << >>

ScoreIdle == ocr_lines = << >> /\ final_score = 0

\* top10Scores = None
NoRanking == [is_none |-> TRUE, indices |-> << >>]

DetectIdle == candidate_regions = << >> /\ measurement_score = << >> /\ top10Scores = NoRanking

OrganIdle ==
    /\ rec_texts = << >>
    /\ remaining_text = [text |-> "", origin |-> << >>]
    /\ keyword_index = 1
    /\ found_keywords = << >>

\* return pixel_array, None
WholeImage == [image |-> "pixel_array", bounds |-> << >>, study_type |-> << >>]

RegionIdle == dicom_data = [tags |-> {}, regions |-> << >>] /\ crop_result = WholeImage

\* structure_table_data has not returned
NotCalled == [kind |-> "none", value |-> << >>]

CallIdle == structure_return = NotCalled

\* a Python value that is None or a str
PyNone == [type |-> "NoneType", str |-> ""]

PyStr(s) == [type |-> "str", str |-> s]

\* roiList is None: detect_measurement_table fell into its except branch
NoRoiList == [is_none |-> TRUE, rois |-> << >>]

\* structured_data is None
NoStructuredData == [is_none |-> TRUE, organLabel |-> PyNone, value |-> << >>]

\* return None, None, None
NoneNoneNone == [structured_data |-> NoStructuredData, image |-> "None", organ_label |-> PyNone]

ExtractIdle == roiList = NoRoiList /\ organLabelFlag = FALSE /\ extraction_return = NoneNoneNone

\* no detection yet: nothing was passed on and nothing was cropped
BoxIdle == detection = << >> /\ roi_bbox = << >> /\ ocr_region = << >>

\* no thread has called StudyTypeProcessor(); _instance is None
NoInstance == [created |-> FALSE, classifier |-> FALSE]

SingletonIdle ==
    /\ thread_pc = << >>
    /\ singleton = NoInstance
    /\ lock_owner = 0
    /\ load_calls = 0
    /\ obtained = << >>

\* no request has reached the API; nothing is extracted, no job is queued
ApiIdle ==
    /\ handler = << >>
    /\ loop_owner = 0
    /\ extracted = << >>
    /\ yolo_queue = << >>
    /\ yolo_worker = << >>

\* no concurrent invocation is under way
ConcurrentIdle == invocation = << >> /\ frame = << >>

SystemIdle == BoxIdle /\ SingletonIdle /\ ApiIdle /\ ConcurrentIdle

SplitInit ==
    /\ pc = "input"
    /\ SplitIdle /\ RowsIdle /\ ScoreIdle /\ DetectIdle /\ OrganIdle /\ RegionIdle
    /\ CallIdle /\ ExtractIdle /\ SystemIdle

\* the caller passes word_text = word['text'].strip()
RecognizeWord ==
    /\ pc = "input"
    /\ \E w \in Words : word' = Strip(w)
    /\ pc' = "ready"
    /\ UNCHANGED <<split_result, rowVars, scoreVars, detectVars, organVars, regionVars,
                   callVars, extractVars, systemVars>>

SplitMeasurement ==
    /\ pc = "ready"
    /\ split_result' = split_measurement(word)
    /\ pc' = "done"
    /\ UNCHANGED <<word, rowVars, scoreVars, detectVars, organVars, regionVars,
                   callVars, extractVars, systemVars>>

SplitNext == RecognizeWord \/ SplitMeasurement

SpecSplit == SplitInit /\ [][SplitNext]_vars

(***************************************************************************)
(* The shapes of Pattern A and Pattern B, stated on the parts themselves   *)
(***************************************************************************)
AllIn(s, C) == \A i \in 1..Len(s) : Char(s, i) \in C

IsInteger(s) == Len(s) >= 1 /\ AllIn(s, Digit)

\* digits, then at least one letter, then digits
IsLabel(s) ==
    \E a \in 0..Len(s) : \E b \in (a + 1)..Len(s) :
        /\ AllIn(SubSeq(s, 1, a), Digit)
        /\ AllIn(SubSeq(s, a + 1, b), Letter)
        /\ AllIn(SubSeq(s, b + 1, Len(s)), Digit)

IsDecimal(s) ==
    \/ IsInteger(s)
    \/ \E d \in 2..(Len(s) - 1) :
          IsInteger(SubSeq(s, 1, d - 1)) /\ Char(s, d) = "." /\ IsInteger(SubSeq(s, d + 1, Len(s)))

\* a decimal, optional whitespace, cm
IsCmValue(s) ==
    \E n \in 1..(Len(s) - 2) : \E g \in n..(Len(s) - 2) :
        /\ IsDecimal(SubSeq(s, 1, n))
        /\ AllIn(SubSeq(s, n + 1, g), Whitespace)
        /\ g + 2 = Len(s)
        /\ SubSeq(s, g + 1, g + 2) = "cm"

\* from index i of w: label, a separator of whitespace and dots, value
LabelValueAt(w, i, label, value) ==
    /\ IsLabel(label)
    /\ IsCmValue(value)
    /\ StartsAt(w, i, label)
    /\ \E j \in (i + Len(label))..(Len(w) + 1) :
          /\ AllIn(SubSeq(w, i + Len(label), j - 1), Whitespace \cup {"."})
          /\ StartsAt(w, j, value)

\* parts is a Pattern A reading of a prefix of w
ShapeA(w, parts) ==
    /\ Len(parts) = 3
    /\ IsInteger(parts[1])
    /\ StartsAt(w, 1, parts[1])
    /\ \E i \in (Len(parts[1]) + 2)..(Len(w) + 1) :
          /\ AllIn(SubSeq(w, Len(parts[1]) + 1, i - 1), Whitespace)
          /\ LabelValueAt(w, i, parts[2], parts[3])

\* parts is a Pattern B reading of a prefix of w
ShapeB(w, parts) == Len(parts) = 2 /\ LabelValueAt(w, 1, parts[1], parts[2])

\* some prefix of w reads as Pattern A (as Pattern B)
SomeA(w) ==
    \E g \in 1..Len(w) : \E i \in (g + 2)..Len(w) : \E k \in i..Len(w) :
    \E j \in (k + 1)..Len(w) : \E e \in (j + 2)..Len(w) :
        ShapeA(w, <<SubSeq(w, 1, g), SubSeq(w, i, k), SubSeq(w, j, e)>>)

SomeB(w) ==
    \E k \in 1..Len(w) : \E j \in (k + 1)..Len(w) : \E e \in (j + 2)..Len(w) :
        ShapeB(w, <<SubSeq(w, 1, k), SubSeq(w, j, e)>>)

\* C4: split_measurement returns a 3-part tuple (index, label, value with cm)
\* when Pattern A reads a prefix of the word from its first character,
\* otherwise a 2-part tuple (label, value with cm) when Pattern B does,
\* otherwise None; '1 d1 2.5 cm' gives ('1', 'd1', '2.5 cm'), 'd1 2.5 cm'
\* gives ('d1', '2.5 cm'), and a word with a non-matching prefix gives None.
C4_PatternOrder ==
    pc = "done" =>
        /\ IF SomeA(word) THEN ShapeA(word, split_result)
           ELSE IF SomeB(word) THEN ShapeB(word, split_result)
           ELSE split_result = None
        /\ word = "1 d1 2.5 cm" => split_result = <<"1", "d1", "2.5 cm">>
        /\ word = "d1 2.5 cm" => split_result = <<"d1", "2.5 cm">>
        /\ word = "x d1 2.5 cm" => split_result = None
        /\ word = "- d1 2.5 cm" => split_result = None

C4_Witness ==
    /\ pc = "done"
    /\ word = "1 d1 2.5 cm"
    /\ split_result = <<"1", "d1", "2.5 cm">>

\* the unit that follows the first number of the word (after optional
\* whitespace), the longest unit first; "" when no number carries a unit
UnitAt(w, j) ==
    IF StartsAt(w, j, "cm^3") THEN "cm^3"
    ELSE IF StartsAt(w, j, "cm") THEN "cm"
    ELSE IF StartsAt(w, j, "mm") THEN "mm"
    ELSE IF StartsAt(w, j, "ml") THEN "ml"
    ELSE ""

ValueUnit(w) ==
    LET ends == {i \in 1..Len(w) : Char(w, i) \in Digit /\ UnitAt(w, Run(w, i + 1, Whitespace)) # ""}
    IN  IF ends = {} THEN ""
        ELSE UnitAt(w, Run(w, (CHOOSE i \in ends : \A k \in ends : i <= k) + 1, Whitespace))

\* C5: for every word whose numeric value carries the unit mm, ml or cm^3
\* split_measurement returns None, so the word stays one raw token.
C5_OnlyCmDecomposed ==
    (pc = "done" /\ ValueUnit(word) \in {"mm", "ml", "cm^3"}) => split_result = None

(***************************************************************************)
(* structure_table_data                                                    *)
(***************************************************************************)
same_line_threshold == 15

\* the backquote of the source set has no TLA+ string literal and is left out;
\* no text of the model holds one
unwanted_chars == {"-", "_", "|", "/", "\\", "~", "^", "*", "+", "="}

\* the characters of '.,;:!?@#$%&()[]{}'
standalone_punctuation ==
    {".", ",", ";", ":", "!", "?", "@", "#", "$", "%", "&", "(", ")", "[", "]", "{", "}"}

\* the filter loop left out: every element is kept
KeepEveryElement(element) == TRUE

\* the element survives the filter loop
KeepElement(element) ==
    LET text == Strip(element.text)
    IN  /\ ~(text = "" \/ text \in unwanted_chars)
        /\ ~(Len(text) = 1 /\ text \in standalone_punctuation)

FilterElements(elements) == SelectSeq(elements, KeepElement)

\* list.sort is stable: an element goes after every element whose key is not
\* greater than its own
InsertByY(sorted, e) ==
    LET k == Cardinality({i \in 1..Len(sorted) : sorted[i].y <= e.y})
    IN  SubSeq(sorted, 1, k) \o <<e>> \o SubSeq(sorted, k + 1, Len(sorted))

RECURSIVE SortByYFrom(_, _)
SortByYFrom(seq, n) == IF n = 0 THEN << >> ELSE InsertByY(SortByYFrom(seq, n - 1), seq[n])

\* filtered_elements.sort(key=lambda x: x['y'])
SortByY(seq) == SortByYFrom(seq, Len(seq))

InsertByX(sorted, e) ==
    LET k == Cardinality({i \in 1..Len(sorted) : sorted[i].x <= e.x})
    IN  SubSeq(sorted, 1, k) \o <<e>> \o SubSeq(sorted, k + 1, Len(sorted))

RECURSIVE SortByXFrom(_, _)
SortByXFrom(seq, n) == IF n = 0 THEN << >> ELSE InsertByX(SortByXFrom(seq, n - 1), seq[n])

\* the line left in the order in which its elements were appended
AppendOrder(seq) == seq

\* current_line.sort(key=lambda x: x['x'])
SortByX(seq) == SortByXFrom(seq, Len(seq))

Abs(n) == IF n < 0 THEN -n ELSE n

\* the element is compared with the first element of the line, not the last
JoinsFirstOfLine(current_line, element) ==
    Abs(element.y - current_line[1].y) < same_line_threshold

\* y_diff < same_line_threshold, y_diff taken against current_line[-1]
JoinsCurrentLine(current_line, element) ==
    Abs(element.y - current_line[Len(current_line)].y) < same_line_threshold

\* the grouping loop over the first n sorted elements: the closed lines and
\* the line being accumulated
RECURSIVE GroupFrom(_, _)
GroupFrom(sorted, n) ==
    IF n = 0 THEN [lines |-> << >>, current_line |-> << >>]
    ELSE LET g == GroupFrom(sorted, n - 1)
             element == sorted[n]
         IN  IF g.current_line = << >>
             THEN [lines |-> g.lines, current_line |-> <<element>>]
             ELSE IF JoinsCurrentLine(g.current_line, element)
             THEN [lines |-> g.lines, current_line |-> Append(g.current_line, element)]
             ELSE [lines |-> Append(g.lines, SortByX(g.current_line)),
                   current_line |-> <<element>>]

\* lines without the step "Add the last line"
ClosedLines(elements) ==
    GroupFrom(SortByY(FilterElements(elements)), Len(FilterElements(elements))).lines

\* lines, after "Add the last line"
GroupLines(elements) ==
    LET g == GroupFrom(SortByY(FilterElements(elements)), Len(FilterElements(elements)))
    IN  IF g.current_line # << >> THEN Append(g.lines, SortByX(g.current_line)) ELSE g.lines

\* the tokens one word adds to line_words
WordTokens(w) ==
    LET word_text == Strip(w.text)
    IN  IF word_text = "" \/ word_text \in unwanted_chars THEN << >>
        ELSE IF split_measurement(word_text) # None THEN split_measurement(word_text)
        ELSE <<word_text>>

RECURSIVE LineTokensFrom(_, _)
LineTokensFrom(line, n) ==
    IF n = 0 THEN << >> ELSE LineTokensFrom(line, n - 1) \o WordTokens(line[n])

\* line_words[f'Value{lineNumber}'] of one line
LineTokens(line) == LineTokensFrom(line, Len(line))

RECURSIVE JoinFrom(_, _)
JoinFrom(tokens, n) ==
    IF n = 0 THEN ""
    ELSE IF n = 1 THEN Strip(tokens[1])
    ELSE JoinFrom(tokens, n - 1) \o " " \o Strip(tokens[n])

\* " ".join(val.strip() for val in tokens)
JoinTokens(tokens) == JoinFrom(tokens, Len(tokens))

RECURSIVE ProcessedFrom(_, _)
ProcessedFrom(lines, n) ==
    IF n = 0 THEN << >>
    ELSE IF LineTokens(lines[n]) # << >>
    THEN Append(ProcessedFrom(lines, n - 1), JoinTokens(LineTokens(lines[n])))
    ELSE ProcessedFrom(lines, n - 1)

\* structured_dict["value"]
structure_table_data(elements) == ProcessedFrom(GroupLines(elements), Len(GroupLines(elements)))

(***************************************************************************)
(* Text elements the OCR loop of extract_table_content builds              *)
(***************************************************************************)
MaxElements == 4

Confidence == 1

Element(t, cx, cy) == [text |-> t, x |-> cx, y |-> cy, confidence |-> Confidence]

Elements ==
    { Element("1", 10, 100), Element("d1", 40, 101), Element(" 2.5 cm", 80, 102),
      Element("3 cm", 40, 101), Element("vol 2.5 cm^3", 40, 110), Element("d2", 10, 118),
      Element("-", 80, 118), Element("d1. 3.1cm ", 10, 120) }

RowsInit ==
    /\ pc = "ocr"
    /\ SplitIdle /\ RowsIdle /\ ScoreIdle /\ DetectIdle /\ OrganIdle /\ RegionIdle
    /\ CallIdle /\ ExtractIdle /\ SystemIdle

\* text_elements.append(text_element)
AppendTextElement ==
    /\ pc = "ocr"
    /\ Len(text_elements) < MaxElements
    /\ \E e \in Elements : text_elements' = Append(text_elements, e)
    /\ UNCHANGED <<pc, structured_dict, splitVars, scoreVars, detectVars, organVars, regionVars,
                   callVars, extractVars, systemVars>>

\* filtering and sorting done on the caller's list itself
FilteredInPlace(elements) == SortByY(FilterElements(elements))

\* the caller's list after the call: the kept elements are appended to the
\* new list filtered_elements, which is the list that is sorted; nothing is
\* assigned to text_elements or to a key of an element
TextElementsAfterCall(elements) == elements

StructureTableData ==
    /\ pc = "ocr"
    /\ structured_dict' = structure_table_data(text_elements)
    /\ text_elements' = TextElementsAfterCall(text_elements)
    /\ pc' = "done"
    /\ UNCHANGED <<splitVars, scoreVars, detectVars, organVars, regionVars,
                   callVars, extractVars, systemVars>>

RowsNext == AppendTextElement \/ StructureTableData

SpecRows == RowsInit /\ [][RowsNext]_vars

\* the filtered elements in ascending y, as the grouping loop visits them
SortedElements == SortByY(FilterElements(text_elements))

RECURSIVE TotalLen(_, _)
TotalLen(lines, n) == IF n = 0 THEN 0 ELSE TotalLen(lines, n - 1) + Len(lines[n])

\* the positions of the visiting order at which a line is closed
LineEnds(lines) == {TotalLen(lines, k) : k \in 1..Len(lines)}

YsOf(seq) == [i \in 1..Len(seq) |-> seq[i].y]

LineLengths(lines) == [k \in 1..Len(lines) |-> Len(lines[k])]

\* C1: visiting the filtered fragments in ascending y, a fragment joins the
\* current line exactly when its y differs by less than 15 from the y of the
\* fragment appended just before it, and otherwise closes the line; y = 100,
\* 101, 102 share a line and 118 starts a new one; y = 100, 110, 120 share a
\* line although first and last differ by 20.
C1_ChainedGrouping ==
    pc = "done" =>
        LET F == SortedElements
            L == GroupLines(text_elements)
        IN  /\ TotalLen(L, Len(L)) = Len(F)
            /\ Len(structured_dict) = Len(L)
            /\ \A p \in 1..(Len(F) - 1) :
                  (p \in LineEnds(L)) <=> ~(Abs(F[p + 1].y - F[p].y) < 15)
            /\ YsOf(F) = <<100, 101, 102, 118>> => LineLengths(L) = <<3, 1>>
            /\ YsOf(F) = <<100, 110, 120>> => LineLengths(L) = <<3>>

\* a drifting line: three fragments chained into one line whose first and
\* last y differ by 15 or more
C1_Witness ==
    /\ pc = "done"
    /\ YsOf(SortedElements) = <<100, 110, 120>>
    /\ Len(structured_dict) = 1

Orderings(n) == {f \in [1..n -> 1..n] : \A i, j \in 1..n : f[i] = f[j] => i = j}

Reordered(seq, f) == [i \in 1..Len(seq) |-> seq[f[i]]]

\* C2: every reordering of the input fragments gives the same lines, the same
\* order inside each line and the same output rows.
C2_OrderIndependent ==
    pc = "done" =>
        \A f \in Orderings(Len(text_elements)) :
            /\ GroupLines(Reordered(text_elements, f)) = GroupLines(text_elements)
            /\ structure_table_data(Reordered(text_elements, f)) = structured_dict

RECURSIVE SqueezeRange(_, _, _)
SqueezeRange(s, a, b) ==
    IF a > b THEN ""
    ELSE IF a = b THEN (IF Char(s, a) \in Whitespace \cup {"."} THEN "" ELSE Char(s, a))
    ELSE SqueezeRange(s, a, (a + b) \div 2) \o SqueezeRange(s, (a + b) \div 2 + 1, b)

\* s without the separator characters the tokenizer may consume between
\* label and value (whitespace and dots)
Squeeze(s) == SqueezeRange(s, 1, Len(s))

\* the space-joined trimmed texts of a line's fragments
JoinTexts(line) == JoinTokens([i \in 1..Len(line) |-> line[i].text])

\* C3: every output row reproduces the space-joined trimmed texts of its
\* line's fragments, up to the separator characters between label and value.
C3_Conservation ==
    pc = "done" =>
        LET L == GroupLines(text_elements)
        IN  /\ Len(structured_dict) = Len(L)
            /\ \A k \in 1..Len(L) : Squeeze(structured_dict[k]) = Squeeze(JoinTexts(L[k]))

RECURSIVE AllTextFrom(_, _)
AllTextFrom(lines, n) ==
    IF n = 0 THEN ""
    ELSE IF lines[n].present
    THEN AllTextFrom(lines, n - 1) \o Lower(lines[n].text) \o " "
    ELSE AllTextFrom(lines, n - 1)

AllText(lines) == AllTextFrom(lines, Len(lines))

\* the number \d*\.?\d+ tried at i: the index after it, 0 when there is none.
\* What follows the number is whitespace or a unit, so the number is the whole
\* digit run, with its fraction when ". digit" follows.
NumberEnd(s, i) ==
    LET d == Run(s, i, Digit)
    IN  IF StartsAt(s, d, ".") /\ Run(s, d + 1, Digit) > d + 1 THEN Run(s, d + 1, Digit)
        ELSE IF d > i THEN d
        ELSE 0

\* (?:mm|cm(?:\^?3)?|ml) tried at j: the index after it, 0 when no unit
UnitEnd(s, j) ==
    IF StartsAt(s, j, "mm") THEN j + 2
    ELSE IF StartsAt(s, j, "cm")
    THEN IF StartsAt(s, j + 2, "^3") THEN j + 4
         ELSE IF StartsAt(s, j + 2, "3") THEN j + 3
         ELSE j + 2
    ELSE IF StartsAt(s, j, "ml") THEN j + 2
    ELSE 0

\* measurement_patterns[0] tried at i: the index after the match, 0 when none
MatchUnit(s, i) ==
    IF NumberEnd(s, i) = 0 THEN 0
    ELSE UnitEnd(s, Run(s, NumberEnd(s, i), Whitespace))

key_terms == <<"cm", "vol", "d1", "d2", "d", "l", "l1", "l2">>

\* \b before index i (i = Len(s) + 1 is the end of the string)
Boundary(s, i) ==
    LET before == i >= 2 /\ Char(s, i - 1) \in WordChar
        after == i <= Len(s) /\ Char(s, i) \in WordChar
    IN  before # after

\* the key terms matched without their word boundaries
MatchKeyUnbounded(s, i) ==
    LET fits == {k \in 1..Len(key_terms) : StartsAt(s, i, key_terms[k])}
    IN  IF fits # {}
        THEN i + Len(key_terms[CHOOSE k \in fits : \A k2 \in fits : k <= k2])
        ELSE 0

\* measurement_patterns[1] tried at i: the first alternative that fits between
\* two word boundaries
MatchKey(s, i) ==
    LET fits == {k \in 1..Len(key_terms) :
                    StartsAt(s, i, key_terms[k]) /\ Boundary(s, i + Len(key_terms[k]))}
    IN  IF Boundary(s, i) /\ fits # {}
        THEN i + Len(key_terms[CHOOSE k \in fits : \A k2 \in fits : k <= k2])
        ELSE 0

\* the least element of a non-empty set of positions
Least(S) == CHOOSE i \in S : \A j \in S : i <= j

\* len(re.findall(pattern, all_text)): the search from i takes the leftmost
\* position at which the pattern matches and resumes after that match
RECURSIVE FindallUnit(_, _)
FindallUnit(s, i) ==
    LET starts == {a \in i..Len(s) : MatchUnit(s, a) # 0}
    IN  IF starts = {} THEN 0 ELSE 1 + FindallUnit(s, MatchUnit(s, Least(starts)))

RECURSIVE FindallKey(_, _)
FindallKey(s, i) ==
    LET starts == {a \in i..Len(s) : MatchKey(s, a) # 0}
    IN  IF starts = {} THEN 0 ELSE 1 + FindallKey(s, MatchKey(s, Least(starts)))

\* str.count(sub): non-overlapping occurrences, left to right
RECURSIVE CountFrom(_, _, _)
CountFrom(s, sub, i) ==
    LET starts == {a \in i..Len(s) : StartsAt(s, a, sub)}
    IN  IF starts = {} THEN 0 ELSE 1 + CountFrom(s, sub, Least(starts) + Len(sub))

Count(s, sub) == CountFrom(s, sub, 1)

\* the bonus for 'cm' occurrences left out
NoCmBonus(all_text) == 0

\* cm_bonus = cm_patterns * 2
CmBonus(all_text) == Count(all_text, "cm") * 2

\* the bonus for 'vol' counted once instead of twice
VolBonusOnce(all_text) == Count(all_text, "vol")

\* vol_bonus = vol_patterns * 2
VolBonus(all_text) == Count(all_text, "vol") * 2

calculate_measurement_score(lines) ==
    IF lines = << >> THEN 0
    ELSE LET all_text == AllText(lines)
             score == FindallUnit(all_text, 1) + FindallKey(all_text, 1)
         IN  score + CmBonus(all_text) + VolBonus(all_text)

(***************************************************************************)
(* OCR lines of one candidate rectangle                                    *)
(***************************************************************************)
MaxLines == 3

OcrLine(t) == [present |-> TRUE, text |-> t]

\* a falsy entry of result[0]
EmptyLine == [present |-> FALSE, text |-> ""]

LineTexts == {"2.5", "cm", "2.5cm", "D1", "3.1 CM", "Vol ", "12 ml", "mm", "xcm", "12cm3", "l1 .5cm^3", "d 7"}

OcrLines == {OcrLine(t) : t \in LineTexts} \cup {EmptyLine}

ScoreInit ==
    /\ pc = "ocr"
    /\ SplitIdle /\ RowsIdle /\ ScoreIdle /\ DetectIdle /\ OrganIdle /\ RegionIdle
    /\ CallIdle /\ ExtractIdle /\ SystemIdle

\* one more line in result[0]
RecognizeLine ==
    /\ pc = "ocr"
    /\ Len(ocr_lines) < MaxLines
    /\ \E l \in OcrLines : ocr_lines' = Append(ocr_lines, l)
    /\ UNCHANGED <<pc, final_score, splitVars, rowVars, detectVars, organVars, regionVars,
                   callVars, extractVars, systemVars>>

CalculateMeasurementScore ==
    /\ pc = "ocr"
    /\ final_score' = calculate_measurement_score(ocr_lines)
    /\ pc' = "done"
    /\ UNCHANGED <<ocr_lines, splitVars, rowVars, detectVars, organVars, regionVars,
                   callVars, extractVars, systemVars>>

ScoreNext == RecognizeLine \/ CalculateMeasurementScore

SpecScore == ScoreInit /\ [][ScoreNext]_vars

\* the positions at which sub occurs
Occurrences(s, sub) == {i \in 1..Len(s) : StartsAt(s, i, sub)}

\* the whole words of s: maximal runs of word characters, as (start, text)
WholeWords(s) ==
    LET spans == {p \in (1..Len(s)) \X (1..Len(s)) :
                    /\ p[1] <= p[2]
                    /\ AllIn(SubSeq(s, p[1], p[2]), WordChar)
                    /\ (p[1] = 1 \/ Char(s, p[1] - 1) \notin WordChar)
                    /\ (p[2] = Len(s) \/ Char(s, p[2] + 1) \notin WordChar)}
    IN  {<<p[1], SubSeq(s, p[1], p[2])>> : p \in spans}

KeyTermSet == {key_terms[k] : k \in 1..Len(key_terms)}

\* the whole words that are key terms
KeyWords(s) == {w \in WholeWords(s) : w[2] \in KeyTermSet}

LowerLines(lines) == [i \in 1..Len(lines) |-> [lines[i] EXCEPT !.text = Lower(@)]]

\* the lowercased texts of the recognized lines, each followed by a space
ScoredText == AllText(ocr_lines)

\* C6: the score is a non-negative integer equal to the number of
\* 'number + unit' matches, plus the number of whole-word key terms, plus
\* twice the occurrences of 'cm', plus twice the occurrences of 'vol', all
\* over the lowercased texts joined with spaces; it does not depend on the
\* case of the texts and is 0 when nothing was recognized.
C6_ScoreFormula ==
    pc = "done" =>
        /\ final_score \in Nat
        /\ final_score = FindallUnit(ScoredText, 1)
                          + Cardinality(KeyWords(ScoredText))
                          + 2 * Cardinality(Occurrences(ScoredText, "cm"))
                          + 2 * Cardinality(Occurrences(ScoredText, "vol"))
        /\ final_score = calculate_measurement_score(LowerLines(ocr_lines))
        /\ (\A i \in 1..Len(ocr_lines) : ~ocr_lines[i].present) => final_score = 0

\* a candidate where all four terms of the sum contribute
C6_Witness ==
    /\ pc = "done"
    /\ ocr_lines = <<OcrLine("Vol "), OcrLine("12 ml"), OcrLine("3.1 CM")>>
    /\ final_score = 8

\* the lines whose text contains 'cm' once lowercased
CmLines == {i \in 1..Len(ocr_lines) : ocr_lines[i].present /\ Contains(Lower(ocr_lines[i].text), "cm")}

RECURSIVE WithoutFrom(_, _, _)
WithoutFrom(lines, P, n) ==
    IF n = 0 THEN << >>
    ELSE IF n \in P THEN WithoutFrom(lines, P, n - 1)
    ELSE Append(WithoutFrom(lines, P, n - 1), lines[n])

\* lines with the entries at the positions P taken out
Without(lines, P) == WithoutFrom(lines, P, Len(lines))

\* C8: a fragment set scores at least as much as the same set with any of
\* its 'cm'-containing fragments taken out, wherever those fragments stand.
C8_CmMonotone ==
    pc = "done" =>
        \A P \in SUBSET CmLines :
            final_score >= calculate_measurement_score(Without(ocr_lines, P))

\* a 'cm' fragment inserted between a number and its unit: the unit match
\* it breaks is outweighed by the 'cm' bonus
C8_Witness ==
    /\ pc = "done"
    /\ ocr_lines = <<OcrLine("2.5"), OcrLine("xcm"), OcrLine("mm")>>
    /\ final_score = 2
    /\ calculate_measurement_score(Without(ocr_lines, {2})) = 1

\* the candidate of scenario 5: two 'cm' substrings, each the unit of a
\* number, one d1 token, no other unit, no 'vol', and no key term other than
\* d1 and the 'cm' units themselves
Scenario5 ==
    /\ pc = "done"
    /\ Cardinality(Occurrences(ScoredText, "cm")) = 2
    /\ FindallUnit(ScoredText, 1) = 2
    /\ \A i \in Occurrences(ScoredText, "cm") :
          \E n \in 1..Len(ScoredText) :
              /\ n = 1 \/ Char(ScoredText, n - 1) \notin WordChar
              /\ NumberEnd(ScoredText, n) # 0
              /\ Run(ScoredText, NumberEnd(ScoredText, n), Whitespace) = i
    /\ ~Contains(ScoredText, "vol") /\ ~Contains(ScoredText, "mm") /\ ~Contains(ScoredText, "ml")
    /\ Cardinality({w \in KeyWords(ScoredText) : w[2] = "d1"}) = 1
    /\ \A w \in KeyWords(ScoredText) : w[2] \in {"d1", "cm"}

\* the 'cm' units that stand as whole words, set off from their number
StandaloneCm == {w \in KeyWords(ScoredText) : w[2] = "cm"}

\* C9 as stated: such a candidate scores 7 whatever the spacing between number
\* and unit.
C9_ScoreSeven == Scenario5 => final_score = 7

\* C9 amended: such a candidate scores 7 plus one for every 'cm' unit that
\* stands as a whole word (it is then also a key term), so 7 exactly when both
\* units are attached to their numbers and 9 when both are set off by
\* whitespace; in every case the score reaches the threshold 4.
C9_ScoreSevenPlusStandalone ==
    Scenario5 =>
        /\ final_score = 7 + Cardinality(StandaloneCm)
        /\ final_score \in 7..9
        /\ final_score >= 4

C9_Witness ==
    /\ Scenario5
    /\ ocr_lines = <<OcrLine("D1"), OcrLine("3.1 CM"), OcrLine("2.5cm")>>
    /\ final_score = 8

(***************************************************************************)
(* detect_measurement_table. Candidates are numbered from 1 here and from  *)
(* 0 in the source.                                                        *)
(***************************************************************************)
top_n == 10

score_threshold == 4

\* the score of one ROI: the OCR text it holds is scored; when OCR raises,
\* calculate_measurement_score returns 0 from its except branch
ScoreOfRoi(roi) == IF roi.readable THEN calculate_measurement_score(roi.lines) ELSE 0

\* sorted(range(n), key=score, reverse=True) keeps ties in index order: an
\* index goes after every index whose score is not smaller than its own
InsertByScore(ranked, scores, i) ==
    LET k == Cardinality({j \in 1..Len(ranked) : scores[ranked[j]] >= scores[i]})
    IN  SubSeq(ranked, 1, k) \o <<i>> \o SubSeq(ranked, k + 1, Len(ranked))

RECURSIVE RankedFrom(_, _)
RankedFrom(scores, n) ==
    IF n = 0 THEN << >> ELSE InsertByScore(RankedFrom(scores, n - 1), scores, n)

\* the first ten indices as they come, unranked
FirstIndices(scores) ==
    [k \in 1..(IF Len(scores) < top_n THEN Len(scores) ELSE top_n) |-> k]

\* heapq.nlargest(10, range(len(measurement_score)), key=...)
NLargest(scores) ==
    LET ranked == RankedFrom(scores, Len(scores))
    IN  SubSeq(ranked, 1, IF Len(ranked) < top_n THEN Len(ranked) ELSE top_n)

\* the threshold test with > in place of >=
ExceedsThreshold(score) == score > score_threshold

\* measurement_score[top10Scores[0]] >= 4
MeetsThreshold(score) == score >= score_threshold

\* the scores of the candidates, in candidate order
ScoresOf(candidates) == [i \in 1..Len(candidates) |-> ScoreOfRoi(candidates[i].roi[1])]

\* the ranking the function returns
ReturnedRanking(scores) ==
    LET top == NLargest(scores)
    IN  IF top # << >> /\ MeetsThreshold(scores[top[1]])
        THEN [is_none |-> FALSE, indices |-> top]
        ELSE NoRanking

(***************************************************************************)
(* Candidate rectangles of the legacy detector                             *)
(***************************************************************************)
MaxCandidates == 3

Roi(ls) == [readable |-> TRUE, lines |-> ls]

UnreadableRoi == [readable |-> FALSE, lines |-> << >>]

Rois ==
    { UnreadableRoi, Roi(<< >>), Roi(<<OcrLine("D1")>>), Roi(<<OcrLine("2.5cm")>>),
      Roi(<<OcrLine("D1"), OcrLine("2.5cm")>>), Roi(<<OcrLine("3.1 CM"), OcrLine("Vol ")>>) }

\* the dictionary detect_rectangular_regions builds for one candidate. Its
\* 'roi' entry holds one ROI, kept here as a one-element sequence, until
\* detect_measurement_table stores the list of all ROIs under the same key;
\* 'measurement_score' is absent (has_score FALSE) until it is stored.
Candidate(r) == [roi |-> <<r>>, has_score |-> FALSE, measurement_score |-> << >>]

DetectInit ==
    /\ pc = "detect"
    /\ SplitIdle /\ RowsIdle /\ ScoreIdle /\ DetectIdle /\ OrganIdle /\ RegionIdle
    /\ CallIdle /\ ExtractIdle /\ SystemIdle

\* candidate_regions.append(candidate_region)
AppendCandidate ==
    /\ pc = "detect"
    /\ Len(candidate_regions) < MaxCandidates
    /\ \E r \in Rois : candidate_regions' = Append(candidate_regions, Candidate(r))
    /\ UNCHANGED <<pc, measurement_score, top10Scores, splitVars, rowVars, scoreVars, organVars, regionVars,
                   callVars, extractVars, systemVars>>

\* detect_rectangular_regions raises: detect_measurement_table returns
\* (None, None, None)
DetectionRaises ==
    /\ pc = "detect"
    /\ pc' = "failed"
    /\ top10Scores' = NoRanking
    /\ UNCHANGED <<candidate_regions, measurement_score, splitVars, rowVars, scoreVars, organVars, regionVars,
                   callVars, extractVars, systemVars>>

\* the whole of detect_measurement_table after the detector returned: the
\* scoring loop, the lists stored on the last candidate, the ranking and
\* the threshold test
DetectMeasurementTable ==
    /\ pc = "detect"
    /\ LET n == Len(candidate_regions)
           roi_list == [i \in 1..n |-> candidate_regions[i].roi[1]]
           scores == [i \in 1..n |-> ScoreOfRoi(roi_list[i])]
       IN  /\ measurement_score' = scores
           /\ candidate_regions' =
                 IF n = 0 THEN candidate_regions
                 ELSE [candidate_regions EXCEPT
                          ![n] = [roi |-> roi_list, has_score |-> TRUE, measurement_score |-> scores]]
           /\ top10Scores' = ReturnedRanking(scores)
    /\ pc' = "done"
    /\ UNCHANGED <<splitVars, rowVars, scoreVars, organVars, regionVars,
                   callVars, extractVars, systemVars>>

DetectNext == AppendCandidate \/ DetectionRaises \/ DetectMeasurementTable

SpecDetect == DetectInit /\ [][DetectNext]_vars

RankedIndices == {top10Scores.indices[k] : k \in 1..Len(top10Scores.indices)}

\* C7 as stated: every candidate index in the returned ranking has score >= 4,
\* and when no candidate reaches 4 the returned ranking is None.
C7_AllRankedAccepted ==
    pc = "done" =>
        /\ \A i \in RankedIndices : measurement_score[i] >= 4
        /\ (\A i \in 1..Len(measurement_score) : measurement_score[i] < 4) => top10Scores.is_none

\* C7 amended: a ranking is returned exactly when some candidate scores at
\* least 4; its first index is a best-scoring candidate and scores at least 4
\* (the indices after it may score less); when no candidate reaches 4,
\* including when there are no candidates, the returned ranking is None.
C7_BestAccepted ==
    pc = "done" =>
        /\ top10Scores.is_none <=> \A i \in 1..Len(measurement_score) : measurement_score[i] < 4
        /\ ~top10Scores.is_none =>
              /\ top10Scores.indices # << >>
              /\ measurement_score[top10Scores.indices[1]] >= 4
              /\ \A i \in 1..Len(measurement_score) :
                    measurement_score[i] <= measurement_score[top10Scores.indices[1]]

\* a best candidate that scores exactly 4, ranked with one that scores less
C7_Witness ==
    /\ pc = "done"
    /\ ~top10Scores.is_none
    /\ measurement_score[top10Scores.indices[1]] = 4
    /\ \E i \in RankedIndices : measurement_score[i] < 4

\* roi_list as detect_measurement_table built it; it is stored under the
\* 'roi' key of the last candidate
ScoredRois ==
    IF candidate_regions = << >> THEN << >>
    ELSE candidate_regions[Len(candidate_regions)].roi

\* what the caller of detect_measurement_table can tell from its result:
\* whether candidate regions were returned or None, the scores, the ranking
DetectResult ==
    [candidates_returned |-> pc = "done", scores |-> measurement_score, ranking |-> top10Scores]

\* the result for candidates whose text is all read without a fault
ResultFor(candidates) ==
    [candidates_returned |-> TRUE, scores |-> ScoresOf(candidates),
     ranking |-> ReturnedRanking(ScoresOf(candidates))]

ReadableRois == {r \in Rois : r.readable}

\* the lists of up to MaxCandidates candidates that are all read without a
\* fault and all score below 4
LegitimatelyBelowThreshold ==
    {candidates \in UNION {[1..n -> {Candidate(r) : r \in ReadableRois}] : n \in 0..MaxCandidates} :
        \A i \in 1..Len(candidates) : ScoreOfRoi(candidates[i].roi[1]) < score_threshold}

\* processing faulted: the region detector raised, or OCR raised while a
\* candidate was scored
ProcessingFaulted ==
    \/ pc = "failed"
    \/ pc = "done" /\ \E i \in 1..Len(ScoredRois) : ~ScoredRois[i].readable

\* C17: the result detect_measurement_table gives when processing faulted
\* differs from every result it gives when all candidates are read and
\* legitimately score below 4 ("no table detected").
C17_FaultNotConflated ==
    ProcessingFaulted =>
        \A candidates \in LegitimatelyBelowThreshold : ResultFor(candidates) # DetectResult

\* C19: after detect_measurement_table has scored the candidates, every
\* candidate carries the score of its own ROI, and its 'roi' entry is still
\* its own ROI.
C19_OwnScore ==
    pc = "done" =>
        \A i \in 1..Len(candidate_regions) :
            /\ candidate_regions[i].has_score
            /\ candidate_regions[i].measurement_score = <<measurement_score[i]>>
            /\ candidate_regions[i].roi = <<ScoredRois[i]>>

(***************************************************************************)
(* The ranking over more than ten candidates                               *)
(***************************************************************************)
MaxRanked == 11

\* a candidate without text and one that holds a measurement
RankedRois == { Roi(<< >>), Roi(<<OcrLine("D1"), OcrLine("2.5cm")>>) }

\* candidate_regions.append(candidate_region)
AppendRanked ==
    /\ pc = "detect"
    /\ Len(candidate_regions) < MaxRanked
    /\ \E r \in RankedRois : candidate_regions' = Append(candidate_regions, Candidate(r))
    /\ UNCHANGED <<pc, measurement_score, top10Scores, splitVars, rowVars, scoreVars, organVars,
                   regionVars, callVars, extractVars, systemVars>>

RankNext == AppendRanked \/ DetectionRaises \/ DetectMeasurementTable

SpecRank == DetectInit /\ [][RankNext]_vars

Smaller(a, b) == IF a < b THEN a ELSE b

\* C20: the ranking holds the indices of the min(10, n) best candidates,
\* each a valid index and none twice, in non-increasing score order; no
\* candidate left out scores strictly higher than one included; the ranking
\* returned, when one is returned, is this ranking.
C20_TopTen ==
    pc = "done" =>
        LET n == Len(measurement_score)
            top == NLargest(measurement_score)
        IN  /\ Len(top) = Smaller(top_n, n)
            /\ \A k \in 1..Len(top) : top[k] \in 1..n
            /\ \A k, l \in 1..Len(top) : k # l => top[k] # top[l]
            /\ \A k \in 1..(Len(top) - 1) :
                  measurement_score[top[k]] >= measurement_score[top[k + 1]]
            /\ \A i \in 1..n, k \in 1..Len(top) :
                  (\A l \in 1..Len(top) : top[l] # i) =>
                      measurement_score[i] <= measurement_score[top[k]]
            /\ ~top10Scores.is_none => top10Scores.indices = top

\* eleven candidates of which only the last holds a measurement: it is
\* ranked first and one of the others is left out
C20_Witness ==
    /\ pc = "done"
    /\ Len(measurement_score) = 11
    /\ \A i \in 1..10 : measurement_score[i] = 0
    /\ measurement_score[11] >= 4
    /\ ~top10Scores.is_none
    /\ Len(top10Scores.indices) = 10
    /\ top10Scores.indices[1] = 11

(***************************************************************************)
(* organLabelIdentification. remaining_text is carried together with, for  *)
(* each of its characters, the position that character has in all_text, so *)
(* that the characters a match deletes can be named.                       *)
(***************************************************************************)
keywords ==
    << "right kidney", "rt kidney", "lt kidney", "LT KIDNEY", "left kidney", "kidney",
       "renal", "nephron", "ureter", "bladder", "rt ovary", "RT OVARY", "lt ovary",
       "uterus", "subscap ten", "breast", "rt breast", "lt breast",
       "rt ax", "lt ax", "transplant kidney" >>

\* sorted(..., key=len, reverse=True) is stable: keyword i comes after the
\* longer keywords and after the keywords of its length that precede it in
\* the catalogue
RankByLen(kws, i) ==
    1 + Cardinality({j \in 1..Len(kws) :
                        Len(kws[j]) > Len(kws[i]) \/ (Len(kws[j]) = Len(kws[i]) /\ j < i)})

SortedByLen(kws) ==
    [r \in 1..Len(kws) |-> kws[CHOOSE i \in 1..Len(kws) : RankByLen(kws, i) = r]]

keywords_sorted == SortedByLen(keywords)

\* all_text += text.lower() + " "
RECURSIVE OrganTextFrom(_, _)
OrganTextFrom(texts, n) ==
    IF n = 0 THEN "" ELSE OrganTextFrom(texts, n - 1) \o Lower(texts[n]) \o " "

OrganAllText(texts) == OrganTextFrom(texts, Len(texts))

\* str.find: the first position at which sub occurs (sub does occur)
FirstIndex(s, sub) ==
    CHOOSE i \in 1..Len(s) : StartsAt(s, i, sub) /\ \A j \in 1..(i - 1) : ~StartsAt(s, j, sub)

\* the found keyword is left in the remaining text
KeepText(rem, kw) == rem

\* remaining_text.replace(keyword.lower(), "", 1)
RemoveFirst(rem, kw) ==
    LET i == FirstIndex(rem.text, kw)
    IN  [text |-> SubSeq(rem.text, 1, i - 1) \o SubSeq(rem.text, i + Len(kw), Len(rem.text)),
         origin |-> SubSeq(rem.origin, 1, i - 1) \o SubSeq(rem.origin, i + Len(kw), Len(rem.origin))]

\* remaining_text = all_text.lower(), with the position of each character
InitialRemaining(all_text) ==
    [text |-> Lower(all_text), origin |-> [i \in 1..Len(all_text) |-> i]]

\* the positions of all_text from which the match of kw is deleted
MatchSpan(rem, kw) ==
    SubSeq(rem.origin, FirstIndex(rem.text, kw), FirstIndex(rem.text, kw) + Len(kw) - 1)

(***************************************************************************)
(* Texts recognized on the whole image                                     *)
(***************************************************************************)
MaxTexts == 2

RecTexts ==
    { "Right Kidney measures 9.2 cm", "kidney", "LT KIDNEY", "lt kidney 4 cm", "kidnephronney",
      "transplant", "Rt Breast", "renal", "bladder RT OVARY" }

OrganInit ==
    /\ pc = "ocr"
    /\ SplitIdle /\ RowsIdle /\ ScoreIdle /\ DetectIdle /\ OrganIdle /\ RegionIdle
    /\ CallIdle /\ ExtractIdle /\ SystemIdle

\* one more entry of rec_texts
RecognizeText ==
    /\ pc = "ocr"
    /\ Len(rec_texts) < MaxTexts
    /\ \E t \in RecTexts : rec_texts' = Append(rec_texts, t)
    /\ UNCHANGED <<pc, remaining_text, keyword_index, found_keywords,
                   splitVars, rowVars, scoreVars, detectVars, regionVars,
                   callVars, extractVars, systemVars>>

\* OCR returned nothing: return []
OrganNoResult ==
    /\ pc = "ocr"
    /\ rec_texts = << >>
    /\ found_keywords' = << >>
    /\ pc' = "done"
    /\ UNCHANGED <<rec_texts, remaining_text, keyword_index, splitVars, rowVars, scoreVars, detectVars, regionVars,
                   callVars, extractVars, systemVars>>

\* all_text is built and the keyword loop is entered
OrganStart ==
    /\ pc = "ocr"
    /\ rec_texts # << >>
    /\ remaining_text' = InitialRemaining(OrganAllText(rec_texts))
    /\ keyword_index' = 1
    /\ found_keywords' = << >>
    /\ pc' = "match"
    /\ UNCHANGED <<rec_texts, splitVars, rowVars, scoreVars, detectVars, regionVars,
                   callVars, extractVars, systemVars>>

\* one iteration of "for keyword in keywords_sorted"
MatchKeyword ==
    /\ pc = "match"
    /\ keyword_index <= Len(keywords_sorted)
    /\ LET keyword == keywords_sorted[keyword_index]
       IN  IF Contains(remaining_text.text, Lower(keyword))
           THEN /\ found_keywords' =
                      Append(found_keywords,
                             [keyword |-> keyword,
                              span |-> MatchSpan(remaining_text, Lower(keyword))])
                /\ remaining_text' = RemoveFirst(remaining_text, Lower(keyword))
           ELSE UNCHANGED <<found_keywords, remaining_text>>
    /\ keyword_index' = keyword_index + 1
    /\ UNCHANGED <<pc, rec_texts, splitVars, rowVars, scoreVars, detectVars, regionVars,
                   callVars, extractVars, systemVars>>

\* the loop is over: return found_keywords
OrganReturn ==
    /\ pc = "match"
    /\ keyword_index > Len(keywords_sorted)
    /\ pc' = "done"
    /\ UNCHANGED <<rec_texts, remaining_text, keyword_index, found_keywords,
                   splitVars, rowVars, scoreVars, detectVars, regionVars,
                   callVars, extractVars, systemVars>>

OrganNext == RecognizeText \/ OrganNoResult \/ OrganStart \/ MatchKeyword \/ OrganReturn

SpecOrgan == OrganInit /\ [][OrganNext]_vars

SpanSet(f) == {f.span[k] : k \in 1..Len(f.span)}

RECURSIVE SpelledRange(_, _, _, _)
SpelledRange(s, span, a, b) ==
    IF a > b THEN ""
    ELSE IF a = b THEN Char(s, span[a])
    ELSE SpelledRange(s, span, a, (a + b) \div 2) \o SpelledRange(s, span, (a + b) \div 2 + 1, b)

\* the characters of s at the positions of span, in order
Spelled(s, span) == SpelledRange(s, span, 1, Len(span))

FoundNames == [k \in 1..Len(found_keywords) |-> found_keywords[k].keyword]

\* C10: the positions of the input credited to the returned keywords are
\* pairwise disjoint, each keyword is credited the characters that spell it,
\* longer keywords are matched before shorter ones, and 'right kidney
\* measures 9.2 cm' yields exactly ['right kidney'].
C10_SpansDisjoint ==
    pc = "done" =>
        LET all_text == OrganAllText(rec_texts)
        IN  /\ \A i, j \in 1..Len(found_keywords) :
                  i # j => SpanSet(found_keywords[i]) \cap SpanSet(found_keywords[j]) = {}
            /\ \A i \in 1..Len(found_keywords) :
                  /\ Spelled(all_text, found_keywords[i].span) = Lower(found_keywords[i].keyword)
                  /\ \A k \in 1..(Len(found_keywords[i].span) - 1) :
                        found_keywords[i].span[k] < found_keywords[i].span[k + 1]
            /\ \A i, j \in 1..Len(found_keywords) :
                  i < j => Len(found_keywords[i].keyword) >= Len(found_keywords[j].keyword)
            /\ all_text = "right kidney measures 9.2 cm " => FoundNames = <<"right kidney">>

C10_Witness ==
    /\ pc = "done"
    /\ rec_texts = <<"Right Kidney measures 9.2 cm">>
    /\ Len(found_keywords) = 1
    /\ found_keywords[1].keyword = "right kidney"
    /\ SpanSet(found_keywords[1]) = 1..12

\* C28: every keyword organLabelIdentification returns occurs, lowercased,
\* as a contiguous substring of the lowercased text it was given.
C28_KeywordInOriginalText ==
    pc = "done" =>
        \A i \in 1..Len(found_keywords) :
            Contains(OrganAllText(rec_texts), Lower(found_keywords[i].keyword))

(***************************************************************************)
(* USRegionLocation and usImageArea. The metadata of a DICOM file is the   *)
(* set of the tags it carries and the items of its ultrasound-region       *)
(* sequence; a boundary field of an item is << v >> when the item carries  *)
(* it and << >> when it does not.                                          *)
(***************************************************************************)
StudyDescription == "(0008,1030)"

ImageType == "(0008,0008)"

SequenceOfUltrasoundRegions == "(0018,6011)"

\* Region Location Min X0, Min Y0, Max X1, Max Y1
BoundaryFields == {"(0018,6018)", "(0018,601a)", "(0018,601c)", "(0018,601e)"}

\* min_x0, min_y0, max_x1 or max_y1: the values of one field over the items
\* that carry it
RECURSIVE CollectFrom(_, _, _)
CollectFrom(regions_sequence, field, n) ==
    IF n = 0 THEN << >>
    ELSE CollectFrom(regions_sequence, field, n - 1) \o regions_sequence[n][field]

\* self.dicomData[tag] raises KeyError when the file lacks the tag
Raised == [raised |-> TRUE, x0 |-> << >>, y0 |-> << >>, x1 |-> << >>, y1 |-> << >>]

getAllAvailableRegions(data) ==
    IF SequenceOfUltrasoundRegions \notin data.tags THEN Raised
    ELSE LET n == Len(data.regions)
         IN  [raised |-> FALSE,
              x0 |-> CollectFrom(data.regions, "(0018,6018)", n),
              y0 |-> CollectFrom(data.regions, "(0018,601a)", n),
              x1 |-> CollectFrom(data.regions, "(0018,601c)", n),
              y1 |-> CollectFrom(data.regions, "(0018,601e)", n)]

\* USRegionLocation(dicom_path): getMeasurementRegions reads the study
\* description and the image type before the regions
USRegionLocation(data) ==
    IF StudyDescription \notin data.tags \/ ImageType \notin data.tags THEN Raised
    ELSE getAllAvailableRegions(data)

Min(a, b) == IF a <= b THEN a ELSE b

Max(a, b) == IF a >= b THEN a ELSE b

\* return cropedRegion, studyType
Cropped(minX, minY, maxX, maxY) ==
    [image |-> "cropedRegion", bounds |-> <<minX, minY, maxX, maxY>>, study_type |-> <<StudyDescription>>]

\* len(minx0) >= 2: the first two entries of each list
UnionOfFirstTwo(c) ==
    Cropped(Min(c.x0[1], c.x0[2]), Min(c.y0[1], c.y0[2]),
            Max(c.x1[1], c.x1[2]), Max(c.y1[1], c.y1[2]))

\* an index past the end of a list raises IndexError, and every exception
\* returns the whole image
usImageArea(data) ==
    LET c == USRegionLocation(data)
    IN  IF c.raised THEN WholeImage
        ELSE IF Len(c.x0) >= 2
        THEN IF Len(c.y0) < 2 \/ Len(c.x1) < 2 \/ Len(c.y1) < 2 THEN WholeImage
             ELSE UnionOfFirstTwo(c)
        ELSE IF Len(c.x0) < 1 \/ Len(c.y0) < 1 \/ Len(c.x1) < 1 \/ Len(c.y1) < 1 THEN WholeImage
             ELSE Cropped(c.x0[1], c.y0[1], c.x1[1], c.y1[1])

(***************************************************************************)
(* DICOM files                                                             *)
(***************************************************************************)
MaxRegions == 3

Tags == {StudyDescription, ImageType, SequenceOfUltrasoundRegions}

Region(minX0, minY0, maxX1, maxY1) ==
    [f \in BoundaryFields |->
        CASE f = "(0018,6018)" -> <<minX0>>
          [] f = "(0018,601a)" -> <<minY0>>
          [] f = "(0018,601c)" -> <<maxX1>>
          [] f = "(0018,601e)" -> <<maxY1>>]

\* the item without the field
Lacking(region, field) == [region EXCEPT ![field] = << >>]

RegionItems ==
    { Region(0, 0, 100, 200), Region(50, 10, 150, 220), Region(20, 30, 400, 90),
      Region(10, 5, 60, 300),
      Lacking(Region(0, 0, 100, 200), "(0018,6018)"),
      Lacking(Region(50, 10, 150, 220), "(0018,601e)"),
      [f \in BoundaryFields |-> << >>] }

RegionInit ==
    /\ pc = "dicom"
    /\ SplitIdle /\ RowsIdle /\ ScoreIdle /\ DetectIdle /\ OrganIdle /\ RegionIdle
    /\ CallIdle /\ ExtractIdle /\ SystemIdle

\* the file carries one more tag
CarryTag ==
    /\ pc = "dicom"
    /\ \E t \in Tags \ dicom_data.tags :
          dicom_data' = [dicom_data EXCEPT !.tags = @ \cup {t}]
    /\ UNCHANGED <<pc, crop_result, splitVars, rowVars, scoreVars, detectVars, organVars,
                   callVars, extractVars, systemVars>>

\* the region sequence carries one more item
CarryRegion ==
    /\ pc = "dicom"
    /\ SequenceOfUltrasoundRegions \in dicom_data.tags
    /\ Len(dicom_data.regions) < MaxRegions
    /\ \E r \in RegionItems :
          dicom_data' = [dicom_data EXCEPT !.regions = Append(@, r)]
    /\ UNCHANGED <<pc, crop_result, splitVars, rowVars, scoreVars, detectVars, organVars,
                   callVars, extractVars, systemVars>>

UsImageArea ==
    /\ pc = "dicom"
    /\ crop_result' = usImageArea(dicom_data)
    /\ pc' = "done"
    /\ UNCHANGED <<dicom_data, splitVars, rowVars, scoreVars, detectVars, organVars,
                   callVars, extractVars, systemVars>>

RegionNext == CarryTag \/ CarryRegion \/ UsImageArea

SpecRegion == RegionInit /\ [][RegionNext]_vars

\* the item carries its four boundary fields
Complete(region) == \A f \in BoundaryFields : region[f] # << >>

\* the rectangle (minX, minY, maxX, maxY) of a complete item
BoundsOf(region) ==
    <<region["(0018,6018)"][1], region["(0018,601a)"][1],
      region["(0018,601c)"][1], region["(0018,601e)"][1]>>

ReportedRegions == dicom_data.regions

IsCrop == crop_result.image = "cropedRegion"

\* C11: the crop rectangle is the single reported region verbatim when one
\* region is reported, and the union of the first two reported regions when
\* two or more are reported, whatever the third and later regions hold.
C11_CropRule ==
    (pc = "done" /\ IsCrop) =>
        /\ Len(ReportedRegions) = 1 =>
              /\ Complete(ReportedRegions[1])
              /\ crop_result.bounds = BoundsOf(ReportedRegions[1])
        /\ Len(ReportedRegions) >= 2 =>
              /\ Complete(ReportedRegions[1]) /\ Complete(ReportedRegions[2])
              /\ LET r0 == BoundsOf(ReportedRegions[1])
                     r1 == BoundsOf(ReportedRegions[2])
                 IN  crop_result.bounds =
                        <<Min(r0[1], r1[1]), Min(r0[2], r1[2]), Max(r0[3], r1[3]), Max(r0[4], r1[4])>>

\* C12: when the metadata lacks the region sequence, or some region lacks
\* one of its four boundary fields, the caller gets the whole image and no
\* crop is computed.
C12_MissingFieldFallsBack ==
    (/\ pc = "done"
     /\ \/ SequenceOfUltrasoundRegions \notin dicom_data.tags
        \/ \E i \in 1..Len(ReportedRegions) : ~Complete(ReportedRegions[i])) =>
        crop_result = WholeImage

\* a file that reports zero regions: every tag, an empty region sequence
ZeroRegions == [tags |-> Tags, regions |-> << >>]

\* C13: the result for a file whose metadata lacks the region sequence
\* differs from the result for a file that reports zero regions.
C13_LackDistinctFromZero ==
    (pc = "done" /\ dicom_data.tags = Tags \ {SequenceOfUltrasoundRegions}) =>
        crop_result # usImageArea(ZeroRegions)

\* the same file with only the first two items of its region sequence
FirstTwoRegions == [dicom_data EXCEPT !.regions = SubSeq(@, 1, 2)]

\* C22: the result of usImageArea for a file that reports three or more
\* regions, when a crop was made, differs from its result for the file that reports only the same
\* first two regions.
C22_DroppedRegionsObservable ==
    (pc = "done" /\ IsCrop /\ Len(ReportedRegions) >= 3) =>
        crop_result # usImageArea(FirstTwoRegions)

(***************************************************************************)
(* structure_table_data called on the fragments of an arbitrary caller:    *)
(* an element is a dictionary that may lack keys. The logging loop that    *)
(* precedes the try block reads element['text'], element['x'],             *)
(* element['y'] and element['confidence'] of every element.                *)
(***************************************************************************)
LoggedKeys == {"text", "x", "y", "confidence"}

\* some element lacks a key the logging loop reads
LacksKey(elements) == \E i \in 1..Len(elements) : LoggedKeys \ DOMAIN elements[i] # {}

\* the KeyError caught by the except branch of the function: return []
MissingKeyCaught(elements) == [kind |-> "list", value |-> << >>]

\* the KeyError is raised outside the try block and reaches the caller
MissingKeyRaised(elements) == [kind |-> "raise", value |-> << >>]

\* what a call gives its caller: the KeyError, or the dictionary
\* {"value": processed_values}
StructureTableDataCall(elements) ==
    IF LacksKey(elements) THEN MissingKeyRaised(elements)
    ELSE [kind |-> "dict", value |-> structure_table_data(elements)]

MaxFragments == 3

Fragments ==
    { Element("d1", 10, 100), Element("3 cm", 40, 101),
      Element("", 10, 100), Element("  ", 40, 100), Element("-", 80, 118),
      Element(".", 10, 130), Element(" | ", 40, 130),
      [x |-> 10, y |-> 100, confidence |-> Confidence],
      [text |-> "d1", y |-> 100, confidence |-> Confidence],
      [text |-> "3 cm", x |-> 40, confidence |-> Confidence],
      [text |-> "d2", x |-> 10, y |-> 118] }

FragmentsInit ==
    /\ pc = "fragments"
    /\ SplitIdle /\ RowsIdle /\ ScoreIdle /\ DetectIdle /\ OrganIdle /\ RegionIdle
    /\ CallIdle /\ ExtractIdle /\ SystemIdle

\* the caller puts one more element in the list it will pass
PassFragment ==
    /\ pc = "fragments"
    /\ Len(text_elements) < MaxFragments
    /\ \E f \in Fragments : text_elements' = Append(text_elements, f)
    /\ UNCHANGED <<pc, structured_dict, splitVars, scoreVars, detectVars, organVars, regionVars,
                   callVars, extractVars, systemVars>>

CallStructureTableData ==
    /\ pc = "fragments"
    /\ structure_return' = StructureTableDataCall(text_elements)
    /\ pc' = "done"
    /\ UNCHANGED <<rowVars, splitVars, scoreVars, detectVars, organVars, regionVars, extractVars, systemVars>>

FragmentsNext == PassFragment \/ CallStructureTableData

SpecFragments == FragmentsInit /\ [][FragmentsNext]_vars

\* the texts of the fragments that carry nothing: empty once stripped, a
\* stray symbol, or a lone punctuation mark
NoiseTexts ==
    { "", "-", "_", "|", "/", "\\", "~", "^", "*", "+", "=",
      ".", ",", ";", ":", "!", "?", "@", "#", "$", "%", "&", "(", ")", "[", "]", "{", "}" }

WellFormed == \A i \in 1..Len(text_elements) : LoggedKeys \subseteq DOMAIN text_elements[i]

NoUsableFragment ==
    /\ WellFormed
    /\ \A i \in 1..Len(text_elements) : Strip(text_elements[i].text) \in NoiseTexts

\* C16: with zero usable fragments (no fragment at all, or only empty and
\* noise fragments) structure_table_data returns the dictionary whose 'value'
\* is the empty list, and raises nothing.
C16_EmptyNotError ==
    (pc = "done" /\ NoUsableFragment) => structure_return = [kind |-> "dict", value |-> << >>]

\* three noise fragments and nothing else
C16_Witness ==
    /\ pc = "done"
    /\ text_elements = <<Element(".", 10, 130), Element("", 10, 100), Element("-", 80, 118)>>
    /\ structure_return = [kind |-> "dict", value |-> << >>]

\* C18: given a fragment that lacks text, x or y, structure_table_data
\* signals an error to its caller: it returns neither an empty list nor rows
\* computed from the remaining fragments.
C18_FailsFast ==
    (/\ pc = "done"
     /\ \E i \in 1..Len(text_elements) : {"text", "x", "y"} \ DOMAIN text_elements[i] # {}) =>
        structure_return.kind = "raise"

\* a usable fragment followed by a fragment without text
C18_Witness ==
    /\ pc = "done"
    /\ text_elements = <<Element("3 cm", 40, 101), [x |-> 10, y |-> 100, confidence |-> Confidence]>>
    /\ structure_return.kind = "raise"

\* the fragment carries nothing: its trimmed text is empty or a single noise
\* character
IsNoise(element) == Strip(element.text) \in NoiseTexts

\* how many times the fragment stands in the sequence
TimesIn(seq, element) == Cardinality({i \in 1..Len(seq) : seq[i] = element})

RECURSIVE TimesInLines(_, _, _)
TimesInLines(lines, n, element) ==
    IF n = 0 THEN 0 ELSE TimesInLines(lines, n - 1, element) + TimesIn(lines[n], element)

\* C24: the lines hold every non-noise fragment exactly once and no noise
\* fragment; there is one output row per line, no line and no row is empty,
\* and a row is made of the tokens of its line's fragments, each fragment
\* giving at least one.
C24_RowsPartition ==
    pc = "done" =>
        LET L == GroupLines(text_elements)
        IN  /\ \A e \in Elements :
                  TimesInLines(L, Len(L), e) = IF IsNoise(e) THEN 0 ELSE TimesIn(text_elements, e)
            /\ Len(structured_dict) = Len(L)
            /\ \A k \in 1..Len(L) :
                  /\ L[k] # << >>
                  /\ structured_dict[k] # ""
                  /\ structured_dict[k] = JoinTokens(LineTokens(L[k]))
                  /\ \A i \in 1..Len(L[k]) : WordTokens(L[k][i]) # << >>

\* two lines from three fragments and a noise fragment, one fragment twice
C24_Witness ==
    /\ pc = "done"
    /\ text_elements = <<Element("d2", 10, 118), Element("-", 80, 118), Element("1", 10, 100),
                         Element("d2", 10, 118)>>
    /\ structured_dict = <<"1", "d2 d2">>

\* C25: inside every line the fragments stand in non-decreasing x, every
\* fragment of an earlier line has a strictly smaller y than every fragment
\* of a later line, and the rows are the lines in that order.
C25_RowOrder ==
    pc = "done" =>
        LET L == GroupLines(text_elements)
        IN  /\ \A k \in 1..Len(L) : \A i, j \in 1..Len(L[k]) : i < j => L[k][i].x <= L[k][j].x
            /\ \A k, m \in 1..Len(L) : k < m =>
                  \A i \in 1..Len(L[k]), j \in 1..Len(L[m]) : L[k][i].y < L[m][j].y
            /\ structured_dict = [k \in 1..Len(L) |-> JoinTokens(LineTokens(L[k]))]

\* fragments given bottom line first and right to left: the upper line is
\* the first row and it reads left to right
C25_Witness ==
    /\ pc = "done"
    /\ text_elements = <<Element("d1. 3.1cm ", 10, 120), Element("d2", 10, 118),
                         Element(" 2.5 cm", 80, 102), Element("d1", 40, 101)>>
    /\ structured_dict = <<"d1 2.5 cm", "d2 d1 3.1cm">>

(***************************************************************************)
(* detect_tables_in_ultrasound (scripts/measurementExtraction.py) with     *)
(* UltrasoundTableDetector of scripts/ultrasoundTableAnalyzer.py. A ROI is *)
(* given by what OCR recognizes inside it.                                 *)
(***************************************************************************)
\* OCR returned no result for the ROI
BlankBox == [ocr |-> FALSE, elements |-> << >>]

\* OCR recognized only a stray symbol
NoiseBox == [ocr |-> TRUE, elements |-> <<Element("-", 80, 118)>>]

\* OCR recognized a label and a value
TableBox == [ocr |-> TRUE, elements |-> <<Element("d1", 10, 100), Element("3 cm", 40, 101)>>]

\* detect_measurement_table: the 'roi' of every detection, or None when the
\* detector raises or returns None
DetectedRois(detections) ==
    IF detections.is_none THEN NoRoiList ELSE [is_none |-> FALSE, rois |-> detections.rois]

\* what yoloDetector.detect(image) gives
Detections ==
    { NoRoiList,
      [is_none |-> FALSE, rois |-> << >>],
      [is_none |-> FALSE, rois |-> <<BlankBox>>],
      [is_none |-> FALSE, rois |-> <<NoiseBox>>],
      [is_none |-> FALSE, rois |-> <<BlankBox, TableBox>>],
      [is_none |-> FALSE, rois |-> <<TableBox, NoiseBox>>] }

\* extract_table_content: {} when OCR returned nothing, else the dictionary
\* structure_table_data returns
extract_table_content(roi) ==
    IF ~roi.ocr THEN [has_value |-> FALSE, value |-> << >>]
    ELSE [has_value |-> TRUE, value |-> structure_table_data(roi.elements)]

\* what extract_table_content gave for each ROI of roiList, in order
ContentsOf(rois) == [i \in 1..Len(rois) |-> extract_table_content(rois[i])]

HasValue(content) == content.has_value

\* final_structured_data["value"]: the 'value' of every ROI that gave one
ValuesFrom(contents) ==
    LET kept == SelectSeq(contents, HasValue)
    IN  [i \in 1..Len(kept) |-> kept[i].value]

\* ', '.join(organLabel)
RECURSIVE JoinLabelsFrom(_, _)
JoinLabelsFrom(names, n) ==
    IF n = 1 THEN names[1] ELSE JoinLabelsFrom(names, n - 1) \o ", " \o names[n]

\* the default "unknown" left out: an empty result is joined like any other
OrganLabelJoined(organ_name) ==
    PyStr(IF organ_name = << >> THEN "" ELSE JoinLabelsFrom(organ_name, Len(organ_name)))

\* organLabel after the "if not organLabel" test, which [] passes and so does
\* the None identifyOrganName returns when the lookup raised
OrganLabelOf(organ_name) ==
    IF organ_name = << >> THEN PyStr("unknown")
    ELSE PyStr(JoinLabelsFrom(organ_name, Len(organ_name)))

\* the keywords organLabelIdentification returned
FoundKeywordNames == [k \in 1..Len(found_keywords) |-> found_keywords[k].keyword]

\* return final_structured_data, image, organLabel when some ROI gave a
\* value, else return None, image, organLabel
ReturnWithImage(organLabel, values) ==
    IF values # << >>
    THEN [structured_data |-> [is_none |-> FALSE, organLabel |-> organLabel, value |-> values],
          image |-> "image", organ_label |-> organLabel]
    ELSE [structured_data |-> NoStructuredData, image |-> "image", organ_label |-> organLabel]

\* the tuple detect_tables_in_ultrasound returns
DetectTablesReturn(roi_list, organ_name) ==
    IF roi_list.is_none \/ roi_list.rois = << >> THEN NoneNoneNone
    ELSE ReturnWithImage(OrganLabelOf(organ_name), ValuesFrom(ContentsOf(roi_list.rois)))

ExtractInit ==
    /\ pc = "extract"
    /\ SplitIdle /\ RowsIdle /\ ScoreIdle /\ DetectIdle /\ OrganIdle /\ RegionIdle
    /\ CallIdle /\ ExtractIdle /\ SystemIdle

\* roiList = detector.detect_measurement_table(image, yoloDetector); with
\* organLabelFlag the organ keywords of the whole image are looked up next,
\* without it organLabel = []
DetectRois ==
    /\ pc = "extract"
    /\ \E detections \in Detections, flag \in BOOLEAN :
          /\ roiList' = DetectedRois(detections)
          /\ organLabelFlag' = flag
          /\ pc' = IF flag THEN "ocr" ELSE "label"
    /\ UNCHANGED <<extraction_return, splitVars, rowVars, scoreVars, detectVars, organVars,
                   regionVars, callVars, systemVars>>

\* the rest of detect_tables_in_ultrasound, once identifyOrganName returned
\* or was skipped
ReturnTables ==
    /\ pc = "label" \/ (pc = "done" /\ organLabelFlag)
    /\ extraction_return' =
          DetectTablesReturn(roiList, IF organLabelFlag THEN FoundKeywordNames ELSE << >>)
    /\ pc' = "returned"
    /\ UNCHANGED <<roiList, organLabelFlag, splitVars, rowVars, scoreVars, detectVars, organVars,
                   regionVars, callVars, systemVars>>

ExtractNext ==
    \/ DetectRois
    \/ RecognizeText \/ OrganNoResult \/ OrganStart \/ MatchKeyword \/ OrganReturn
    \/ ReturnTables

SpecExtract == ExtractInit /\ [][ExtractNext]_vars

\* the keywords the matcher gave; none when organ labelling is switched off
MatchedKeywords == IF organLabelFlag THEN FoundNames ELSE << >>

\* names separated by a comma and a space, first name first
RECURSIVE CommaJoined(_)
CommaJoined(names) ==
    IF Len(names) = 1 THEN names[1] ELSE names[1] \o ", " \o CommaJoined(Tail(names))

NoTableFound == roiList.is_none \/ roiList.rois = << >>

\* C14: the organLabel of the output record is always a string: the matched
\* keywords joined with commas in matcher order, or 'unknown' when no
\* keyword matched or organ labelling was switched off.
C14_OrganLabelString ==
    (pc = "returned" /\ ~extraction_return.structured_data.is_none) =>
        LET label == extraction_return.structured_data.organLabel
        IN  /\ label.type = "str"
            /\ MatchedKeywords = << >> => label.str = "unknown"
            /\ MatchedKeywords # << >> => label.str = CommaJoined(MatchedKeywords)

\* a record whose label joins two keywords
C14_Witness ==
    /\ pc = "returned"
    /\ rec_texts = <<"bladder RT OVARY">>
    /\ ~extraction_return.structured_data.is_none
    /\ extraction_return.structured_data.organLabel = PyStr("rt ovary, bladder")
    /\ extraction_return.structured_data.value = << <<"d1 3 cm">>, << >> >>

\* C15: when no table is found (no rectangle proposed, or detection
\* errored) the organ label, matched keywords or 'unknown', is still
\* returned to the caller.
C15_LabelSurvivesNoTable ==
    (pc = "returned" /\ NoTableFound) =>
        /\ extraction_return.organ_label.type = "str"
        /\ MatchedKeywords = << >> => extraction_return.organ_label.str = "unknown"
        /\ MatchedKeywords # << >> =>
              extraction_return.organ_label.str = CommaJoined(MatchedKeywords)

\* every detected rectangle yields zero rows: OCR gave nothing for it, or
\* structure_table_data returned an empty 'value'
EveryRoiWithoutRows ==
    /\ ~NoTableFound
    /\ \A i \in 1..Len(roiList.rois) : extract_table_content(roiList.rois[i]).value = << >>

\* C26: when every detected rectangle yields zero rows, the structured
\* result detect_tables_in_ultrasound returns is None.
C26_NoRowsNoRecord ==
    (pc = "returned" /\ EveryRoiWithoutRows) => extraction_return.structured_data.is_none

(***************************************************************************)
(* The rectangle of a detection on its way to OCR: YOLODetector.detect     *)
(* (scripts/measurementTableDetection.py), detect_measurement_table        *)
(* (scripts/ultrasoundTableAnalyzer.py), detect_tables_in_ultrasound and   *)
(* extract_table_content (scripts/contentExtractor.py). A rectangle is     *)
(* the tuple of its edges <<left, top, right, bottom>>.                    *)
(***************************************************************************)
ImageWidth == 40

ImageHeight == 40

\* the corners a box of the detector may have
Coordinates == {0, 10, 20, 30, 40}

\* box.xyxy of the boxes the model may report
Boxes ==
    {<<x1, y1, x2, y2>> : x1 \in Coordinates, y1 \in Coordinates,
                          x2 \in Coordinates, y2 \in Coordinates}

\* the dictionary detect appends for a box: 'bbox' is [x, y, width, height]
\* and 'roi' is [x1, y1, x2, y2]
DetectionOf(xyxy) ==
    [bbox |-> <<xyxy[1], xyxy[2], xyxy[3] - xyxy[1], xyxy[4] - xyxy[2]>>,
     roi |-> xyxy]

\* roi = candidate['roi']
RoiOfCandidate(candidate) == candidate.roi

\* a slice bound past the end of the axis stops at the end
Clip(v, size) == IF v > size THEN size ELSE v

\* x, y, w, h = bbox; roi = image[y:y+h, x:(x+w)]: the edges of the crop
CropOf(bbox) ==
    LET x == bbox[1]
        y == bbox[2]
        w == bbox[3]
        h == bbox[4]
    IN  <<Clip(x, ImageWidth), Clip(y, ImageHeight),
          Clip(x + w, ImageWidth), Clip(y + h, ImageHeight)>>

BoxInit ==
    /\ pc = "image"
    /\ SplitIdle /\ RowsIdle /\ ScoreIdle /\ DetectIdle /\ OrganIdle /\ RegionIdle
    /\ CallIdle /\ ExtractIdle /\ SystemIdle

\* YOLODetector.detect reports one box
YoloDetect ==
    /\ pc = "image"
    /\ \E xyxy \in Boxes :
          /\ xyxy[1] < xyxy[3] /\ xyxy[2] < xyxy[4]
          /\ detection' = <<DetectionOf(xyxy)>>
    /\ pc' = "detected"
    /\ UNCHANGED <<roi_bbox, ocr_region, splitVars, rowVars, scoreVars, detectVars, organVars,
                   regionVars, callVars, extractVars, restVars>>

\* detect_measurement_table: roi_list.append(candidate['roi'])
TakeRoi ==
    /\ pc = "detected"
    /\ roi_bbox' = <<RoiOfCandidate(detection[1])>>
    /\ pc' = "listed"
    /\ UNCHANGED <<detection, ocr_region, splitVars, rowVars, scoreVars, detectVars, organVars,
                   regionVars, callVars, extractVars, restVars>>

\* detect_tables_in_ultrasound hands every entry of roiList to
\* extract_table_content(image, roi), which crops the image for OCR
CropForOcr ==
    /\ pc = "listed"
    /\ ocr_region' = <<CropOf(roi_bbox[1])>>
    /\ pc' = "cropped"
    /\ UNCHANGED <<detection, roi_bbox, splitVars, rowVars, scoreVars, detectVars, organVars,
                   regionVars, callVars, extractVars, restVars>>

BoxNext == YoloDetect \/ TakeRoi \/ CropForOcr

SpecBox == BoxInit /\ [][BoxNext]_vars

\* C27: the region cropped for OCR has the edges of the rectangle the
\* detector reported.
C27_CropIsDetectedBox ==
    pc = "cropped" => ocr_region[1] = detection[1].roi

\* ---------------------------------------------------------------------
\* StudyTypeProcessor (reportStudyTypeIdentification.py): the singleton
\* built by __new__ under double-checked locking, called from several
\* threads.  Every line of __new__ is one step of the calling thread.
\* ---------------------------------------------------------------------

pipelineVars == <<pc, splitVars, rowVars, scoreVars, detectVars, organVars,
                  regionVars, callVars, extractVars, boxVars>>

NumThreads == 3
Threads == 1..NumThreads

\* what a thread holds before StudyTypeProcessor() has returned to it
NothingObtained == [returned |-> FALSE, loaded |-> FALSE, identify |-> "not called"]

SingletonInit ==
    /\ pc = "threads"
    /\ thread_pc = [t \in Threads |-> "new"]
    /\ singleton = NoInstance
    /\ lock_owner = 0
    /\ load_calls = 0
    /\ obtained = [t \in Threads |-> NothingObtained]
    /\ SplitIdle /\ RowsIdle /\ ScoreIdle /\ DetectIdle /\ OrganIdle
    /\ RegionIdle /\ CallIdle /\ ExtractIdle /\ BoxIdle
    /\ ApiIdle /\ ConcurrentIdle

\* if cls._instance is None:      (read without the lock)
FirstCheckTarget(instance) == IF instance.created THEN "return" ELSE "acquire"

FirstCheck(t) ==
    /\ thread_pc[t] = "new"
    /\ thread_pc' = [thread_pc EXCEPT ![t] = FirstCheckTarget(singleton)]
    /\ UNCHANGED <<singleton, lock_owner, load_calls, obtained, pipelineVars, apiVars, concurrentVars>>

\* with cls._lock:                (blocks while another thread holds it)
AcquireLock(t) ==
    /\ thread_pc[t] = "acquire"
    /\ lock_owner = 0
    /\ lock_owner' = t
    /\ thread_pc' = [thread_pc EXCEPT ![t] = "locked"]
    /\ UNCHANGED <<singleton, load_calls, obtained, pipelineVars, apiVars, concurrentVars>>

\* if cls._instance is None:      (second check, under the lock)
SecondCheck(t) ==
    /\ thread_pc[t] = "locked"
    /\ thread_pc' = [thread_pc EXCEPT ![t] =
                        IF singleton.created THEN "release" ELSE "create"]
    /\ UNCHANGED <<singleton, lock_owner, load_calls, obtained, pipelineVars, apiVars, concurrentVars>>

\* cls._instance = super().__new__(cls): the class attribute is assigned
\* here, the new object has no classifier attribute yet
Published(instance) == [instance EXCEPT !.created = TRUE]

CreateInstance(t) ==
    /\ thread_pc[t] = "create"
    /\ singleton' = Published(singleton)
    /\ thread_pc' = [thread_pc EXCEPT ![t] = "load"]
    /\ UNCHANGED <<lock_owner, load_calls, obtained, pipelineVars, apiVars, concurrentVars>>

\* cls._instance._load_model() is entered; pipeline(...) runs
EnterLoadModel(t) ==
    /\ thread_pc[t] = "load"
    /\ load_calls' = load_calls + 1
    /\ thread_pc' = [thread_pc EXCEPT ![t] = "loading"]
    /\ UNCHANGED <<singleton, lock_owner, obtained, pipelineVars, apiVars, concurrentVars>>

\* self.classifier = pipeline(...): the model is loaded and assigned
FinishLoadModel(t) ==
    /\ thread_pc[t] = "loading"
    /\ singleton' = [singleton EXCEPT !.classifier = TRUE]
    /\ thread_pc' = [thread_pc EXCEPT ![t] = "release"]
    /\ UNCHANGED <<lock_owner, load_calls, obtained, pipelineVars, apiVars, concurrentVars>>

\* leaving the with block
ReleaseLock(t) ==
    /\ thread_pc[t] = "release"
    /\ lock_owner' = 0
    /\ thread_pc' = [thread_pc EXCEPT ![t] = "return"]
    /\ UNCHANGED <<singleton, load_calls, obtained, pipelineVars, apiVars, concurrentVars>>

\* return cls._instance: the caller now holds the instance, loaded or not
ReturnInstance(t) ==
    /\ thread_pc[t] = "return"
    /\ obtained' = [obtained EXCEPT ![t].returned = TRUE,
                                    ![t].loaded = singleton.classifier]
    /\ thread_pc' = [thread_pc EXCEPT ![t] = "returned"]
    /\ UNCHANGED <<singleton, lock_owner, load_calls, pipelineVars, apiVars, concurrentVars>>

\* identify(text) with a text of three characters or more: self.classifier
\* is read; on an object without the attribute this is an AttributeError
IdentifyOutcome(instance) == IF instance.classifier THEN "classified" ELSE "AttributeError"

Identify(t) ==
    /\ thread_pc[t] = "returned"
    /\ obtained' = [obtained EXCEPT ![t].identify = IdentifyOutcome(singleton)]
    /\ thread_pc' = [thread_pc EXCEPT ![t] = "identified"]
    /\ UNCHANGED <<singleton, lock_owner, load_calls, pipelineVars, apiVars, concurrentVars>>

SingletonNext ==
    \E t \in Threads :
        \/ FirstCheck(t)
        \/ AcquireLock(t)
        \/ SecondCheck(t)
        \/ CreateInstance(t)
        \/ EnterLoadModel(t)
        \/ FinishLoadModel(t)
        \/ ReleaseLock(t)
        \/ ReturnInstance(t)
        \/ Identify(t)

SpecSingleton == SingletonInit /\ [][SingletonNext]_vars

\* _load_model is entered at most once, whatever the interleaving
LoadedAtMostOnce == load_calls <= 1

\* C30: however many threads call StudyTypeProcessor() concurrently, the
\* model is loaded once and no caller receives the instance before its
\* classifier has been loaded.
C30_NoCallerBeforeLoaded ==
    /\ LoadedAtMostOnce
    /\ \A t \in Threads : obtained[t].returned => obtained[t].loaded

\* ---------------------------------------------------------------------
\* The measurement-extraction endpoints (clarityAIApi.py) and
\* download_study_by_uid (dicomDownloader.py).  A handler runs on the one
\* event loop without interruption up to its await; the job it submits
\* runs in the one worker process of yolo_executor, concurrently with
\* whatever the event loop does next.
\* ---------------------------------------------------------------------

NumRequests == 2
Requests == 1..NumRequests

\* the studies a request can ask for; "absent" is an id /tools/find
\* returns no study for
Studies == {"studyA", "studyB"}
AbsentStudy == "absent"

\* the files the worker reads from the folder it was handed
FilesPerStudy == 2

\* API/extracted right after shutil.rmtree and mkdir: no study folder
EmptyExtractBase == [s \in Studies |-> 0]

IdleWorker == [request |-> 0, files_read |-> 0, outcome |-> "none"]

ArrivedRequest(study) ==
    [pc |-> "arrived", study |-> study, result |-> "none", status |-> 0]

ApiInit ==
    /\ pc = "serving"
    /\ \E asked \in [Requests -> Studies \cup {AbsentStudy}] :
           handler = [r \in Requests |-> ArrivedRequest(asked[r])]
    /\ loop_owner = 0
    /\ extracted = EmptyExtractBase
    /\ yolo_queue = << >>
    /\ yolo_worker = IdleWorker
    /\ SplitIdle /\ RowsIdle /\ ScoreIdle /\ DetectIdle /\ OrganIdle
    /\ RegionIdle /\ CallIdle /\ ExtractIdle /\ BoxIdle
    /\ SingletonIdle /\ ConcurrentIdle

\* download_study_by_uid, lines 46-57: both base directories are deleted
\* with everything below them and created again
ClearDirs(r) ==
    /\ handler[r].pc = "arrived"
    /\ loop_owner = 0
    /\ loop_owner' = r
    /\ extracted' = EmptyExtractBase
    /\ handler' = [handler EXCEPT ![r].pc = "cleared"]
    /\ UNCHANGED <<yolo_queue, yolo_worker, pipelineVars, singletonVars, concurrentVars>>

\* download_study_by_uid, lines 59-77: no study found, (False, [], None);
\* the handler answers 404
StudyNotFound(r) ==
    /\ handler[r].pc = "cleared"
    /\ handler[r].study = AbsentStudy
    /\ handler' = [handler EXCEPT ![r].pc = "responded", ![r].status = 404]
    /\ loop_owner' = 0
    /\ UNCHANGED <<extracted, yolo_queue, yolo_worker, pipelineVars, singletonVars,
                   concurrentVars>>

\* download_study_by_uid, lines 79-119: the archive is extracted into
\* API/extracted/<orthanc_study_id>, whose path is returned
ExtractStudy(r) ==
    /\ handler[r].pc = "cleared"
    /\ handler[r].study # AbsentStudy
    /\ extracted' = [extracted EXCEPT ![handler[r].study] = r]
    /\ handler' = [handler EXCEPT ![r].pc = "extracted"]
    /\ UNCHANGED <<loop_owner, yolo_queue, yolo_worker, pipelineVars, singletonVars,
                   concurrentVars>>

\* loop.run_in_executor(yolo_executor, yolo_detection_worker, folderPath, ...)
\* and await: the job is queued and the event loop is free again
SubmitToWorker(r) ==
    /\ handler[r].pc = "extracted"
    /\ yolo_queue' = Append(yolo_queue, r)
    /\ handler' = [handler EXCEPT ![r].pc = "awaiting"]
    /\ loop_owner' = 0
    /\ UNCHANGED <<extracted, yolo_worker, pipelineVars, singletonVars, concurrentVars>>

\* ProcessPoolExecutor(max_workers=1): the idle worker takes the oldest job
\* and yolo_detection_worker begins (imports, YOLODetector())
WorkerStart ==
    /\ yolo_worker.request = 0
    /\ yolo_queue # << >>
    /\ yolo_worker' = [IdleWorker EXCEPT !.request = Head(yolo_queue)]
    /\ yolo_queue' = Tail(yolo_queue)
    /\ UNCHANGED <<handler, loop_owner, extracted, pipelineVars, singletonVars,
                   concurrentVars>>

\* processDicom(folder_path, ...) reads a file of the folder; a folder that
\* is gone raises, and yolo_detection_worker returns success False
ReadOutcome(owner) == IF owner = 0 THEN "error" ELSE "none"

WorkerReadFile ==
    /\ yolo_worker.request # 0
    /\ yolo_worker.outcome = "none"
    /\ yolo_worker.files_read < FilesPerStudy
    /\ yolo_worker' =
          [yolo_worker EXCEPT
              !.files_read = @ + 1,
              !.outcome = ReadOutcome(extracted[handler[yolo_worker.request].study])]
    /\ UNCHANGED <<handler, loop_owner, extracted, yolo_queue, pipelineVars,
                   singletonVars, concurrentVars>>

\* yolo_detection_worker returns; the future of the request is resolved
WorkerOutcome(worker) == IF worker.outcome = "error" THEN "error" ELSE "success"

WorkerFinish ==
    /\ yolo_worker.request # 0
    /\ yolo_worker.outcome = "error" \/ yolo_worker.files_read = FilesPerStudy
    /\ handler' = [handler EXCEPT ![yolo_worker.request].result = WorkerOutcome(yolo_worker)]
    /\ yolo_worker' = IdleWorker
    /\ UNCHANGED <<loop_owner, extracted, yolo_queue, pipelineVars, singletonVars,
                   concurrentVars>>

\* the awaiting handler resumes with the result: 200, or 500 when
\* result["success"] is False
StatusOf(result) == IF result = "success" THEN 200 ELSE 500

Respond(r) ==
    /\ handler[r].pc = "awaiting"
    /\ handler[r].result # "none"
    /\ loop_owner = 0
    /\ handler' = [handler EXCEPT ![r].pc = "responded",
                                  ![r].status = StatusOf(handler[r].result)]
    /\ UNCHANGED <<loop_owner, extracted, yolo_queue, yolo_worker, pipelineVars,
                   singletonVars, concurrentVars>>

\* asyncio.wait_for(..., timeout=300) expires: the handler answers 504 and
\* its future is cancelled.  A job the worker has started keeps running; a
\* job still queued is dropped, unless the executor has already moved it
\* to its call queue, from where it will run
QueueWithout(queue, r) == SelectSeq(queue, LAMBDA q : q # r)

TimeOut(r) ==
    /\ handler[r].pc = "awaiting"
    /\ handler[r].result = "none"
    /\ loop_owner = 0
    /\ handler' = [handler EXCEPT ![r].pc = "responded", ![r].status = 504]
    /\ yolo_queue' \in {yolo_queue, QueueWithout(yolo_queue, r)}
    /\ UNCHANGED <<loop_owner, extracted, yolo_worker, pipelineVars,
                   singletonVars, concurrentVars>>

ApiNext ==
    \/ \E r \in Requests :
          \/ ClearDirs(r)
          \/ StudyNotFound(r)
          \/ ExtractStudy(r)
          \/ SubmitToWorker(r)
          \/ Respond(r)
          \/ TimeOut(r)
    \/ WorkerStart
    \/ WorkerReadFile
    \/ WorkerFinish

SpecApi == ApiInit /\ [][ApiNext]_vars

\* the folder handed to the worker for its current job holds the files
\* extracted for that job's request
WorkerFolderIntact ==
    extracted[handler[yolo_worker.request].study] = yolo_worker.request

\* C29: while the worker processes the folder extracted for a request, no
\* other request has removed or replaced that folder's files.
C29_FolderKeptForWorker ==
    yolo_worker.request # 0 => WorkerFolderIntact

\* ---------------------------------------------------------------------
\* Two callers invoking the core components at the same time, each on its
\* own argument.  A call keeps what the function assigns (structured,
\* filtered_elements, lines, remaining_text, found_keywords, result,
\* score, ...) in local variables, which live in the frame of that call;
\* a step of a call is one statement block of the function.
\* ---------------------------------------------------------------------

Callers == 1..2

\* the local variables of a call that has not assigned any
NoLocals ==
    [filtered_elements |-> << >>, lines |-> << >>, processed_values |-> << >>,
     remaining_text |-> InitialRemaining(""), keyword_index |-> 1, found_keywords |-> << >>,
     result |-> None, final_score |-> 0, cropedRegion |-> WholeImage]

\* every call would use the same variables (module globals or attributes
\* of the shared analyzer object)
SharedFrame(c) == 1

\* the frame of a call: local names are bound per call
Frame(c) == c

Frames == {Frame(c) : c \in Callers}

\* what a call returns, read from its local variables
ReturnValue(locals) ==
    [structured_dict |-> locals.processed_values,
     found_keywords |-> locals.found_keywords,
     split_result |-> locals.result,
     final_score |-> locals.final_score,
     crop_result |-> locals.cropedRegion]

NoArguments ==
    [text_elements |-> << >>, rec_texts |-> << >>, text |-> "", ocr_lines |-> << >>,
     dicom_data |-> [tags |-> {}, regions |-> << >>]]

Call(component, arguments) ==
    [component |-> component, arguments |-> arguments, pc |-> "call",
     overlapped |-> FALSE, returned |-> ReturnValue(NoLocals)]

\* the calls a caller can make
Calls ==
    {Call("structure_table_data", [NoArguments EXCEPT !.text_elements = e]) :
        e \in {<<Element("d2", 10, 118), Element("-", 80, 118), Element("d1", 40, 101)>>,
               <<Element(" 2.5 cm", 80, 102), Element("1", 10, 100), Element("d1", 40, 101)>>}}
    \cup
    {Call("organLabelIdentification", [NoArguments EXCEPT !.rec_texts = t]) :
        t \in {<<"Right Kidney measures 9.2 cm">>, <<"kidnephronney">>, <<"bladder RT OVARY">>}}
    \cup
    {Call("split_measurement", [NoArguments EXCEPT !.text = w]) :
        w \in {"1 d1 2.5 cm", "d1. 3.1cm ", "d2"}}
    \cup
    {Call("calculate_measurement_score", [NoArguments EXCEPT !.ocr_lines = l]) :
        l \in {<<OcrLine("2.5cm"), OcrLine("Vol ")>>, <<OcrLine("D1"), EmptyLine>>}}
    \cup
    {Call("usImageArea", [NoArguments EXCEPT !.dicom_data = d]) :
        d \in {[tags |-> Tags, regions |-> <<Region(0, 0, 100, 200), Region(50, 10, 150, 220)>>],
               [tags |-> Tags, regions |-> <<Region(10, 5, 60, 300)>>]}}

ConcurrentInit ==
    /\ pc = "callers"
    /\ invocation \in [Callers -> Calls]
    /\ frame = [f \in Frames |-> NoLocals]
    /\ SplitIdle /\ RowsIdle /\ ScoreIdle /\ DetectIdle /\ OrganIdle
    /\ RegionIdle /\ CallIdle /\ ExtractIdle /\ BoxIdle
    /\ SingletonIdle /\ ApiIdle

\* the call has been entered and has not returned
Active(call) == call.pc \notin {"call", "returned"}

\* caller c enters its function while the calls of the others are where
\* they are; a call that is under way at that moment overlaps with it
Entered(c, next) ==
    [d \in Callers |->
        IF d = c
        THEN [invocation[c] EXCEPT
                 !.pc = next,
                 !.overlapped = \E e \in Callers \ {c} : Active(invocation[e])]
        ELSE IF Active(invocation[d]) THEN [invocation[d] EXCEPT !.overlapped = TRUE]
        ELSE invocation[d]]

At(c, component, position) ==
    invocation[c].component = component /\ invocation[c].pc = position

\* structure_table_data: filtered_elements = [] and the filter loop
FilterStep(c) ==
    /\ At(c, "structure_table_data", "call")
    /\ frame' = [frame EXCEPT ![Frame(c)].filtered_elements =
                                 FilterElements(invocation[c].arguments.text_elements)]
    /\ invocation' = Entered(c, "sort")
    /\ UNCHANGED <<pipelineVars, singletonVars, apiVars>>

\* filtered_elements.sort(key=lambda x: x['y'])
SortStep(c) ==
    /\ At(c, "structure_table_data", "sort")
    /\ frame' = [frame EXCEPT ![Frame(c)].filtered_elements = SortByY(@)]
    /\ invocation' = [invocation EXCEPT ![c].pc = "group"]
    /\ UNCHANGED <<pipelineVars, singletonVars, apiVars>>

\* the grouping loop and "Add the last line", on the sorted list
LinesOf(sorted) ==
    LET g == GroupFrom(sorted, Len(sorted))
    IN  IF g.current_line # << >> THEN Append(g.lines, SortByX(g.current_line)) ELSE g.lines

GroupStep(c) ==
    /\ At(c, "structure_table_data", "group")
    /\ frame' = [frame EXCEPT ![Frame(c)].lines = LinesOf(frame[Frame(c)].filtered_elements)]
    /\ invocation' = [invocation EXCEPT ![c].pc = "process"]
    /\ UNCHANGED <<pipelineVars, singletonVars, apiVars>>

\* the loop over lines and processed_values
ProcessStep(c) ==
    /\ At(c, "structure_table_data", "process")
    /\ LET lines == frame[Frame(c)].lines
       IN  frame' = [frame EXCEPT ![Frame(c)].processed_values = ProcessedFrom(lines, Len(lines))]
    /\ invocation' = [invocation EXCEPT ![c].pc = "return"]
    /\ UNCHANGED <<pipelineVars, singletonVars, apiVars>>

\* organLabelIdentification: all_text is built, found_keywords = [],
\* remaining_text = all_text.lower()
KeywordsBegin(c) ==
    /\ At(c, "organLabelIdentification", "call")
    /\ frame' = [frame EXCEPT
                    ![Frame(c)].remaining_text =
                        InitialRemaining(OrganAllText(invocation[c].arguments.rec_texts)),
                    ![Frame(c)].found_keywords = << >>,
                    ![Frame(c)].keyword_index = 1]
    /\ invocation' = Entered(c, "match")
    /\ UNCHANGED <<pipelineVars, singletonVars, apiVars>>

\* the body of "for keyword in keywords_sorted" for one keyword
Matched(locals, keyword) ==
    IF Contains(locals.remaining_text.text, Lower(keyword))
    THEN [locals EXCEPT !.found_keywords = Append(@, keyword),
                        !.remaining_text = RemoveFirst(@, Lower(keyword))]
    ELSE locals

\* one iteration of the keyword loop; after the last keyword the loop ends
KeywordStep(c) ==
    /\ At(c, "organLabelIdentification", "match")
    /\ LET locals == frame[Frame(c)]
           after == Matched(locals, keywords_sorted[locals.keyword_index])
       IN  /\ frame' = [frame EXCEPT ![Frame(c)] =
                           [after EXCEPT !.keyword_index = locals.keyword_index + 1]]
           /\ invocation' = [invocation EXCEPT ![c].pc =
                                IF locals.keyword_index >= Len(keywords_sorted)
                                THEN "return" ELSE "match"]
    /\ UNCHANGED <<pipelineVars, singletonVars, apiVars>>

\* split_measurement: result = tuple(...) of the matching pattern, or None
SplitStep(c) ==
    /\ At(c, "split_measurement", "call")
    /\ frame' = [frame EXCEPT ![Frame(c)].result = split_measurement(invocation[c].arguments.text)]
    /\ invocation' = Entered(c, "return")
    /\ UNCHANGED <<pipelineVars, singletonVars, apiVars>>

\* calculate_measurement_score: all_text, score and final_score
ScoreStep(c) ==
    /\ At(c, "calculate_measurement_score", "call")
    /\ frame' = [frame EXCEPT ![Frame(c)].final_score =
                                 calculate_measurement_score(invocation[c].arguments.ocr_lines)]
    /\ invocation' = Entered(c, "return")
    /\ UNCHANGED <<pipelineVars, singletonVars, apiVars>>

\* usImageArea: the coordinate lists, minX .. maxY and cropedRegion
BoundsStep(c) ==
    /\ At(c, "usImageArea", "call")
    /\ frame' = [frame EXCEPT ![Frame(c)].cropedRegion = usImageArea(invocation[c].arguments.dicom_data)]
    /\ invocation' = Entered(c, "return")
    /\ UNCHANGED <<pipelineVars, singletonVars, apiVars>>

\* the return statement: the caller gets what the local variables hold
ReturnStep(c) ==
    /\ invocation[c].pc = "return"
    /\ invocation' = [invocation EXCEPT ![c].pc = "returned",
                                        ![c].returned = ReturnValue(frame[Frame(c)])]
    /\ UNCHANGED <<frame, pipelineVars, singletonVars, apiVars>>

ConcurrentNext ==
    \E c \in Callers :
        \/ FilterStep(c)
        \/ SortStep(c)
        \/ GroupStep(c)
        \/ ProcessStep(c)
        \/ KeywordsBegin(c)
        \/ KeywordStep(c)
        \/ SplitStep(c)
        \/ ScoreStep(c)
        \/ BoundsStep(c)
        \/ ReturnStep(c)

SpecConcurrent == ConcurrentInit /\ [][ConcurrentNext]_vars

\* the keyword loop run from start to end on one text
RECURSIVE MatchedUpTo(_, _)
MatchedUpTo(all_text, n) ==
    IF n = 0 THEN [NoLocals EXCEPT !.remaining_text = InitialRemaining(all_text)]
    ELSE Matched(MatchedUpTo(all_text, n - 1), keywords_sorted[n])

organLabelKeywords(texts) ==
    MatchedUpTo(OrganAllText(texts), Len(keywords_sorted)).found_keywords

\* what the call gives when it runs alone, from entry to return
Alone(call) ==
    LET given == call.arguments
        nothing == ReturnValue(NoLocals)
    IN  CASE call.component = "structure_table_data" ->
                [nothing EXCEPT !.structured_dict = structure_table_data(given.text_elements)]
          [] call.component = "organLabelIdentification" ->
                [nothing EXCEPT !.found_keywords = organLabelKeywords(given.rec_texts)]
          [] call.component = "split_measurement" ->
                [nothing EXCEPT !.split_result = split_measurement(given.text)]
          [] call.component = "calculate_measurement_score" ->
                [nothing EXCEPT !.final_score = calculate_measurement_score(given.ocr_lines)]
          [] call.component = "usImageArea" ->
                [nothing EXCEPT !.crop_result = usImageArea(given.dicom_data)]

====
